---- MODULE Spec2Model ----
(***************************************************************************)
(* Model of the sales_ninja aggregation and forecast-accuracy code.        *)
(*                                                                         *)
(* State: the two record tables the services read (actual sales and        *)
(* predicted sales), the last call made and what it returned.              *)
(* One action per service function; three implementations of the same      *)
(* service coexist in the repository (services/local_data.py,              *)
(* services/data_service.py, services/queries.py) and each is modelled     *)
(* separately.                                                             *)
(*                                                                         *)
(* Numbers: amounts are integers; every derived ratio is kept as an exact  *)
(* reduced fraction n/d, so that "* 100" or a missing guard is visible.    *)
(* The non-numbers the code can produce (Python None / SQL NULL, NaN,      *)
(* +inf, -inf) are separate kinds of value.                                *)
(***************************************************************************)
EXTENDS Integers, Sequences, FiniteSets, TLC

VARIABLES actuals, predictions, call, result, outcome, session

vars == <<actuals, predictions, call, result, outcome, session>>

-----------------------------------------------------------------------------
(* Bounds of the model.                                                    *)

\* Dates are day ordinals, 1 = 2007-01-01 (the first year of the data set).
MaxDay == 3

\* Largest number of rows in each of the two tables.
MaxRecs == 2

\* The amounts a row can carry (signed, see Record.amount).
Amounts == {-2, 2}

Dates == 1..MaxDay

\* The dates of the rollup runs: 2007-01-01, 2007-02-01, 2007-04-01 and
\* 2008-01-01 (two years, three months, two quarters; the first and the last
\* both carry the label 'Week 1').
RollupDates == {1, 32, 91, 366}

\* end_date omitted by the caller (Optional[date] = None).
NoEnd == 0

-----------------------------------------------------------------------------
(* Calendar: what pandas' .dt accessors and datetime.date give for a day    *)
(* ordinal (1 = 2007-01-01, a Monday).                                      *)

EpochYear == 2007

IsLeap(y) == (y % 4 = 0 /\ y % 100 # 0) \/ y % 400 = 0
DaysInYear(y) == IF IsLeap(y) THEN 366 ELSE 365
DaysInMonth(y, m) ==
    IF m = 2 THEN (IF IsLeap(y) THEN 29 ELSE 28)
    ELSE IF m \in {4, 6, 9, 11} THEN 30 ELSE 31

RECURSIVE YearFrom(_, _)
YearFrom(n, y) == IF n <= DaysInYear(y) THEN y ELSE YearFrom(n - DaysInYear(y), y + 1)

RECURSIVE DayOfYearFrom(_, _)
DayOfYearFrom(n, y) ==
    IF n <= DaysInYear(y) THEN n ELSE DayOfYearFrom(n - DaysInYear(y), y + 1)

RECURSIVE MonthFrom(_, _, _)
MonthFrom(doy, y, m) ==
    IF doy <= DaysInMonth(y, m) THEN m ELSE MonthFrom(doy - DaysInMonth(y, m), y, m + 1)

RECURSIVE DayOfMonthFrom(_, _, _)
DayOfMonthFrom(doy, y, m) ==
    IF doy <= DaysInMonth(y, m) THEN doy
    ELSE DayOfMonthFrom(doy - DaysInMonth(y, m), y, m + 1)

\* .dt.year, .dt.month, .dt.quarter
Year(n) == YearFrom(n, EpochYear)
DayOfYear(n) == DayOfYearFrom(n, EpochYear)
Month(n) == MonthFrom(DayOfYear(n), Year(n), 1)
DayOfMonth(n) == DayOfMonthFrom(DayOfYear(n), Year(n), 1)
Quarter(n) == ((Month(n) - 1) \div 3) + 1

RECURSIVE DaysBeforeYear(_)
DaysBeforeYear(y) == IF y <= EpochYear THEN 0 ELSE DaysBeforeYear(y - 1) + DaysInYear(y - 1)

RECURSIVE DaysBeforeMonth(_, _)
DaysBeforeMonth(y, m) == IF m <= 1 THEN 0 ELSE DaysBeforeMonth(y, m - 1) + DaysInMonth(y, m - 1)

\* pd.to_datetime of year / month / day columns: the ordinal of that day.
ToDatetime(y, m, d) == DaysBeforeYear(y) + DaysBeforeMonth(y, m) + d

\* date.isoformat(): the text 'YYYY-MM-DD', kept as its three fields.
IsoFormat(n) == <<Year(n), Month(n), DayOfMonth(n)>>

\* The CalendarWeekLabel column, 'Week <k>': k counts the Sunday-started weeks
\* of the calendar year, the week holding 1 January being week 1.  The label
\* carries no year.
CalendarWeekLabel(n) ==
    LET jan1 == n - DayOfYear(n) + 1
    IN  ((DayOfYear(n) - 1 + (jan1 % 7)) \div 7) + 1

-----------------------------------------------------------------------------
(* Values: exact fractions and the non-numbers of pandas / SQL.            *)

Abs(x) == IF x < 0 THEN -x ELSE x

RECURSIVE GCD(_, _)
GCD(a, b) == IF b = 0 THEN a ELSE GCD(b, a % b)

\* The fraction n/d (d # 0) in lowest terms with a positive denominator.
Q(n, d) ==
    LET g == GCD(Abs(n), Abs(d))
        s == IF d < 0 THEN -1 ELSE 1
    IN  [k |-> "num", n |-> (s * n) \div g, d |-> (s * d) \div g]

V(n) == [k |-> "num", n |-> n, d |-> 1]

None   == [k |-> "none", n |-> 0, d |-> 1]
NaN    == [k |-> "nan",  n |-> 0, d |-> 1]
PosInf == [k |-> "inf",  n |-> 1, d |-> 1]
NegInf == [k |-> "inf",  n |-> -1, d |-> 1]

IsNum(v) == v.k = "num"

\* float subtraction, absolute value, multiplication and division as numpy
\* does them on float64 columns (NaN propagates, x/0 is +-inf, 0/0 is NaN).
VSub(a, b) ==
    IF IsNum(a) /\ IsNum(b) THEN Q(a.n * b.d - b.n * a.d, a.d * b.d) ELSE NaN

VAbs(a) == IF a.k \in {"num", "inf"} THEN [a EXCEPT !.n = Abs(a.n)] ELSE a

VMul(a, c) ==
    IF IsNum(a) THEN Q(a.n * c, a.d)
    ELSE IF a.k = "inf" /\ c # 0 THEN (IF c > 0 THEN a ELSE [a EXCEPT !.n = -a.n])
    ELSE IF a.k = "inf" THEN NaN
    ELSE a

VDiv(a, b) ==
    IF ~(IsNum(a) /\ IsNum(b)) THEN NaN
    ELSE IF b.n # 0 THEN Q(a.n * b.d, a.d * b.n)
    ELSE IF a.n = 0 THEN NaN
    ELSE IF a.n > 0 THEN PosInf ELSE NegInf

VGt0(a) == a.k \in {"num", "inf"} /\ a.n > 0

\* Exact square root of a non-negative integer when it has one, else -1.
ISqrt(n) == IF \E r \in 0..n : r * r = n THEN CHOOSE r \in 0..n : r * r = n ELSE -1

\* sgn(n) * sqrt(|n| / d) for d > 0: a fraction when both roots are exact,
\* otherwise kept symbolically as kind "root" over the reduced fraction.
Root(n, d) ==
    LET q == Q(Abs(n), d)
        s == IF n < 0 THEN -1 ELSE 1
    IN  IF ISqrt(q.n) >= 0 /\ ISqrt(q.d) >= 0
        THEN Q(s * ISqrt(q.n), ISqrt(q.d))
        ELSE [k |-> "root", n |-> s * q.n, d |-> q.d]

\* x ** 0.5 and SQRT(x) of a non-negative value.
VSqrt(a) == IF IsNum(a) THEN Root(a.n, a.d) ELSE a

RECURSIVE SumVals(_, _)
SumVals(vs, i) ==
    IF i > Len(vs) THEN V(0)
    ELSE LET rest == SumVals(vs, i + 1)
         IN  Q(vs[i].n * rest.d + rest.n * vs[i].d, vs[i].d * rest.d)

\* (mutant) a mean that does not skip NaN entries.
SeriesMeanKeepNaN(vs) ==
    LET nums == SelectSeq(vs, LAMBDA v : v.k = "num")
    IN  IF Len(vs) = 0 \/ Len(nums) < Len(vs) THEN NaN
        ELSE LET t == SumVals(nums, 1) IN Q(t.n, t.d * Len(nums))

\* Series.mean(): NaN entries are skipped; an infinite entry makes the mean
\* infinite; nothing left to average gives NaN.
SeriesMean(vs) ==
    LET kept == SelectSeq(vs, LAMBDA v : v.k # "nan")
        infs == {kept[i].n : i \in {j \in DOMAIN kept : kept[j].k = "inf"}}
        nums == SelectSeq(kept, LAMBDA v : v.k = "num")
    IN  IF Len(kept) = 0 \/ infs = {1, -1} THEN NaN
        ELSE IF infs = {1} THEN PosInf
        ELSE IF infs = {-1} THEN NegInf
        ELSE LET t == SumVals(nums, 1) IN Q(t.n, t.d * Len(nums))

\* SQL AVG(): NULL inputs are skipped; no input left gives NULL.
SqlAvg(vs) ==
    LET kept == SelectSeq(vs, LAMBDA v : v.k = "num")
    IN  IF Len(kept) = 0 THEN None
        ELSE LET t == SumVals(kept, 1) IN Q(t.n, t.d * Len(kept))

RECURSIVE SumInts(_, _)
SumInts(xs, i) == IF i > Len(xs) THEN 0 ELSE xs[i] + SumInts(xs, i + 1)

\* Pearson correlation of the integer columns xs and ys (same length >= 1):
\* (n*Sxy - Sx*Sy) / sqrt((n*Sxx - Sx^2) * (n*Syy - Sy^2)); 0/0 is NaN, which
\* is what a single row or a constant column gives.
Pearson(xs, ys) ==
    LET n   == Len(xs)
        sx  == SumInts(xs, 1)
        sy  == SumInts(ys, 1)
        sxy == SumInts([i \in DOMAIN xs |-> xs[i] * ys[i]], 1)
        sxx == SumInts([i \in DOMAIN xs |-> xs[i] * xs[i]], 1)
        syy == SumInts([i \in DOMAIN ys |-> ys[i] * ys[i]], 1)
        cov == n * sxy - sx * sy
        vx  == n * sxx - sx * sx
        vy  == n * syy - sy * sy
    IN  IF vx = 0 \/ vy = 0 THEN NaN
        ELSE IF cov = 0 THEN V(0)
        ELSE Root((IF cov < 0 THEN -1 ELSE 1) * cov * cov, vx * vy)

-----------------------------------------------------------------------------
(* Tables and the pandas operations used on them.                          *)

\* A row of either table: the DateKey and SalesAmount columns (SalesAmount is
\* read as net_sales by utils/sales_calculations.py).  A row's SalesKey, the
\* key of the fact table, is its position in the table.
RecordsOn(D) == [DateKey : D, SalesAmount : Amounts]

RowLeq(r, s) ==
    \/ r.DateKey < s.DateKey
    \/ r.DateKey = s.DateKey /\ r.SalesAmount <= s.SalesAmount

\* The tables of at most MaxRecs rows.  Every operation modelled groups the
\* rows by a key, so one row order per multiset of rows is enumerated.
TablesOn(D) ==
    UNION { { t \in [1..n -> RecordsOn(D)] : \A i \in 1..(n - 1) : RowLeq(t[i], t[i + 1]) }
            : n \in 0..MaxRecs }

\* (mutant) the end date itself is left out.
InRangeOpenEnd(r, start_date, end_date) ==
    r.DateKey >= start_date /\ r.DateKey < end_date

\* df[(df['date'].dt.date >= start_date) & (df['date'].dt.date <= end_date)]
InRange(r, start_date, end_date) ==
    r.DateKey >= start_date /\ r.DateKey <= end_date

DateMask(df, start_date, end_date) ==
    SelectSeq(df, LAMBDA r : InRange(r, start_date, end_date))

\* if not end_date: end_date = start_date + timedelta(days=30)
DefaultSpan == 30
EndOf(start_date, end_date) ==
    IF end_date = NoEnd THEN start_date + DefaultSpan ELSE end_date

RECURSIVE SortedSeq(_)
SortedSeq(S) ==
    IF S = {} THEN << >>
    ELSE LET m == CHOOSE x \in S : \A y \in S : x <= y
         IN  <<m>> \o SortedSeq(S \ {m})

\* (mutant) the amount of the day's first row instead of the day's sum.
RECURSIVE SumOverFirst(_, _, _)
SumOverFirst(df, i, d) ==
    IF i > Len(df) THEN 0
    ELSE IF df[i].DateKey = d THEN df[i].SalesAmount
    ELSE SumOverFirst(df, i + 1, d)

RECURSIVE SumOver(_, _, _)
SumOver(df, i, d) ==
    IF i > Len(df) THEN 0
    ELSE (IF df[i].DateKey = d THEN df[i].SalesAmount ELSE 0) + SumOver(df, i + 1, d)

\* (mutant) 'count' replaced by the number of distinct amounts of the day.
CountDistinctAmounts(df, d) ==
    Cardinality({df[i].SalesAmount : i \in {j \in DOMAIN df : df[j].DateKey = d}})

CountOver(df, d) == Cardinality({i \in DOMAIN df : df[i].DateKey = d})

\* (mutant) an empty frame aggregates to one row of its own.
GroupByDateTotalRow(df) ==
    LET keys == SortedSeq({df[i].DateKey : i \in DOMAIN df})
    IN  IF keys = << >> THEN <<[date |-> 1, sum |-> 0, count |-> 1]>>
        ELSE [i \in DOMAIN keys |->
                [date |-> keys[i], sum |-> SumOver(df, 1, keys[i]),
                 count |-> CountOver(df, keys[i])]]

\* df.groupby(df['date'].dt.date)['SalesAmount'].agg(['sum', 'count']).reset_index():
\* one row per distinct date, in ascending date order.
GroupByDate(df) ==
    LET keys == SortedSeq({df[i].DateKey : i \in DOMAIN df})
    IN  [i \in DOMAIN keys |->
            [date |-> keys[i], sum |-> SumOver(df, 1, keys[i]),
             count |-> CountOver(df, keys[i])]]

KeysOf(g) == {g[i].date : i \in DOMAIN g}
RowAt(g, d) == g[CHOOSE i \in DOMAIN g : g[i].date = d]

\* (mutant) how='outer' ignored: the merge keeps the common keys only.
MergeKeysInnerOnly(left, right, how) == KeysOf(left) \cap KeysOf(right)

\* The keys pd.merge(left, right, on='date', how=...) keeps.
MergeKeys(left, right, how) ==
    IF how = "outer" THEN KeysOf(left) \cup KeysOf(right)
    ELSE KeysOf(left) \cap KeysOf(right)

\* pd.merge of two per-date frames; a side without the key holds NaN.
Merge(left, right, how) ==
    LET keys == SortedSeq(MergeKeys(left, right, how))
        lv(d) == IF d \in KeysOf(left) THEN V(RowAt(left, d).sum) ELSE NaN
        lc(d) == IF d \in KeysOf(left) THEN V(RowAt(left, d).count) ELSE NaN
        rv(d) == IF d \in KeysOf(right) THEN V(RowAt(right, d).sum) ELSE NaN
        rc(d) == IF d \in KeysOf(right) THEN V(RowAt(right, d).count) ELSE NaN
    IN  [i \in DOMAIN keys |->
            [date |-> keys[i],
             actual_sales |-> lv(keys[i]), actual_records |-> lc(keys[i]),
             predicted_sales |-> rv(keys[i]), predicted_records |-> rc(keys[i])]]

\* (mutant) the missing side is left as it is.
Fill0Missing(v) == v

\* .fillna(0)
Fill0(v) == IF v.k = "nan" THEN V(0) ELSE v

FillNa0(m) ==
    [i \in DOMAIN m |->
        [date |-> m[i].date,
         actual_sales |-> Fill0(m[i].actual_sales),
         actual_records |-> Fill0(m[i].actual_records),
         predicted_sales |-> Fill0(m[i].predicted_sales),
         predicted_records |-> Fill0(m[i].predicted_records)]]

-----------------------------------------------------------------------------
(* services/local_data.py                                                   *)

\* (mutant) 0 instead of None when the actual value is not positive.
LocalPercentageErrorZero(a, p) ==
    IF VGt0(a) THEN VMul(VDiv(VAbs(VSub(a, p)), a), 100) ELSE V(0)

\* lambda row: (abs(a - p) / a) * 100 if a > 0 else None
LocalPercentageError(a, p) ==
    IF VGt0(a) THEN VMul(VDiv(VAbs(VSub(a, p)), a), 100) ELSE None

LocalComparison(acts, preds, start_date, end_date) ==
    LET a == GroupByDate(DateMask(acts, start_date, end_date))
        p == GroupByDate(DateMask(preds, start_date, end_date))
        comparison == FillNa0(Merge(a, p, "outer"))
    IN  [i \in DOMAIN comparison |->
            [date |-> IsoFormat(comparison[i].date),
             actual_sales |-> comparison[i].actual_sales,
             predicted_sales |-> comparison[i].predicted_sales,
             actual_records |-> comparison[i].actual_records,
             predicted_records |-> comparison[i].predicted_records,
             absolute_error |->
                 VAbs(VSub(comparison[i].actual_sales, comparison[i].predicted_sales)),
             percentage_error |->
                 LocalPercentageError(comparison[i].actual_sales,
                                      comparison[i].predicted_sales)]]

NoCall == [op |-> "none", impl |-> "none", start |-> 0, end |-> 0]

\* A request is served synchronously: it is taken when no other is in hand.
Idle == call.op = "none"

local_get_actuals_vs_predictions ==
    \E s \in Dates, e \in Dates \cup {NoEnd} :
        /\ Idle
        /\ call' = [op |-> "get_actuals_vs_predictions", impl |-> "local_data",
                    start |-> s, end |-> EndOf(s, e)]
        /\ result' = LocalComparison(actuals, predictions, s, EndOf(s, e))
        /\ outcome' = "returned"
        /\ UNCHANGED <<actuals, predictions, session>>

\* The report of get_prediction_accuracy_metrics: an inner merge of the two
\* daily series, a dictionary of zeros when nothing merges, else the means.
LocalAccuracy(acts, preds, start_date, end_date) ==
    LET a == GroupByDate(DateMask(acts, start_date, end_date))
        p == GroupByDate(DateMask(preds, start_date, end_date))
        merged == Merge(a, p, "inner")
        err == [i \in DOMAIN merged |->
                   VSub(merged[i].actual_sales, merged[i].predicted_sales)]
    IN  IF Len(merged) = 0
        THEN [total_predictions |-> 0, mae |-> V(0), rmse |-> V(0),
              mape |-> V(0), correlation |-> V(0)]
        ELSE [total_predictions |-> Len(merged),
              mae |-> SeriesMean([i \in DOMAIN err |-> VAbs(err[i])]),
              rmse |-> VSqrt(SeriesMean([i \in DOMAIN err |-> VMul(err[i], err[i].n)])),
              mape |-> VMul(SeriesMean([i \in DOMAIN err |->
                                  VDiv(VAbs(err[i]), merged[i].actual_sales)]), 100),
              correlation |-> Pearson([i \in DOMAIN merged |-> merged[i].actual_sales.n],
                                      [i \in DOMAIN merged |-> merged[i].predicted_sales.n])]

local_get_prediction_accuracy_metrics ==
    \E s \in Dates, e \in Dates \cup {NoEnd} :
        /\ Idle
        /\ call' = [op |-> "get_prediction_accuracy_metrics", impl |-> "local_data",
                    start |-> s, end |-> EndOf(s, e)]
        /\ result' = LocalAccuracy(actuals, predictions, s, EndOf(s, e))
        /\ outcome' = "returned"
        /\ UNCHANGED <<actuals, predictions, session>>

-----------------------------------------------------------------------------
(* services/data_service.py and services/queries.py: the same services as  *)
(* BigQuery SQL.                                                            *)

\* WHERE DATE(DateKey) BETWEEN @start_date AND @end_date
Between(r, start_date, end_date) ==
    start_date <= r.DateKey /\ r.DateKey <= end_date

\* SELECT DATE(DateKey) as date, SUM(SalesAmount), COUNT(*) ... GROUP BY date
SqlGroupByDate(t, start_date, end_date) ==
    GroupByDate(SelectSeq(t, LAMBDA r : Between(r, start_date, end_date)))

\* FROM actuals a FULL OUTER JOIN predictions p ON a.date = p.date ORDER BY date:
\* the columns of a side without the date are NULL.
FullOuterJoin(a, p) ==
    LET keys == SortedSeq(KeysOf(a) \cup KeysOf(p))
        col(g, d, f) == IF d \in KeysOf(g) THEN V(RowAt(g, d)[f]) ELSE None
    IN  [i \in DOMAIN keys |->
            [date |-> keys[i],
             actual_sales |-> col(a, keys[i], "sum"),
             actual_records |-> col(a, keys[i], "count"),
             predicted_sales |-> col(p, keys[i], "sum"),
             predicted_records |-> col(p, keys[i], "count")]]

Coalesce(v, dflt) == IF v.k = "none" THEN V(dflt) ELSE v

\* CASE WHEN a.actual_sales > 0
\*      THEN ABS(a.actual_sales - COALESCE(p.predicted_sales, 0)) / a.actual_sales * 100
\*      ELSE NULL END                                   (data_service.py)
ServicePercentageError(a, p) ==
    IF IsNum(a) /\ a.n > 0
    THEN VMul(VDiv(VAbs(VSub(a, Coalesce(p, 0))), a), 100)
    ELSE None

\* The same CASE in queries.py, which ends at "/ a.actual_sales".
QueriesPercentageError(a, p) ==
    IF IsNum(a) /\ a.n > 0
    THEN VDiv(VAbs(VSub(a, Coalesce(p, 0))), a)
    ELSE None

\* The SELECT of the comparison query; the two files differ in the CASE only.
SqlComparison(acts, preds, start_date, end_date, impl) ==
    LET j == FullOuterJoin(SqlGroupByDate(acts, start_date, end_date),
                           SqlGroupByDate(preds, start_date, end_date))
    IN  [i \in DOMAIN j |->
            [date |-> j[i].date,
             actual_sales |-> Coalesce(j[i].actual_sales, 0),
             predicted_sales |-> Coalesce(j[i].predicted_sales, 0),
             actual_records |-> Coalesce(j[i].actual_records, 0),
             predicted_records |-> Coalesce(j[i].predicted_records, 0),
             absolute_error |-> VAbs(VSub(Coalesce(j[i].actual_sales, 0),
                                          Coalesce(j[i].predicted_sales, 0))),
             percentage_error |->
                 IF impl = "data_service"
                 THEN ServicePercentageError(j[i].actual_sales, j[i].predicted_sales)
                 ELSE QueriesPercentageError(j[i].actual_sales, j[i].predicted_sales)]]

\* data_service.py turns each result row into a dict with 'date' as
\* row.date.isoformat(); queries.py returns dict(row) with the date as it is.
ServiceComparison(acts, preds, start_date, end_date) ==
    LET rows == SqlComparison(acts, preds, start_date, end_date, "data_service")
    IN  [i \in DOMAIN rows |-> [rows[i] EXCEPT !.date = IsoFormat(rows[i].date)]]

service_get_actuals_vs_predictions ==
    \E s \in Dates, e \in Dates \cup {NoEnd} :
        /\ Idle
        /\ call' = [op |-> "get_actuals_vs_predictions", impl |-> "data_service",
                    start |-> s, end |-> EndOf(s, e)]
        /\ result' = ServiceComparison(actuals, predictions, s, EndOf(s, e))
        /\ outcome' = "returned"
        /\ UNCHANGED <<actuals, predictions, session>>

queries_get_actuals_vs_predictions ==
    \E s \in Dates, e \in Dates \cup {NoEnd} :
        /\ Idle
        /\ call' = [op |-> "get_actuals_vs_predictions", impl |-> "queries",
                    start |-> s, end |-> EndOf(s, e)]
        /\ result' = SqlComparison(actuals, predictions, s, EndOf(s, e), "queries")
        /\ outcome' = "returned"
        /\ UNCHANGED <<actuals, predictions, session>>

\* FROM merged_data a JOIN prediction_data p ON a.date = p.date
\* WHERE DATE(a.date) BETWEEN @start_date AND @end_date: one row per pair of
\* an actual row and a predicted row of the same date.
JoinOnDate(acts, preds, start_date, end_date) ==
    LET la == Len(acts)
        lp == Len(preds)
        pair(x) == [a |-> acts[((x - 1) \div lp) + 1], p |-> preds[((x - 1) % lp) + 1]]
        all == [x \in 1..(la * lp) |-> pair(x)]
        on == SelectSeq(all, LAMBDA c : c.a.DateKey = c.p.DateKey
                                        /\ Between(c.a, start_date, end_date))
    IN  [x \in DOMAIN on |-> [actual_value |-> on[x].a.SalesAmount,
                              predicted_value |-> on[x].p.SalesAmount]]

\* ABS(a.value - p.value) / NULLIF(a.value, 0)
NullIfZeroDiv(num, den) == IF den = 0 THEN None ELSE Q(num, den)

\* CORR(): NULL below two pairs, NaN when a variance is zero.
SqlCorr(xs, ys) == IF Len(xs) < 2 THEN None ELSE Pearson(xs, ys)

SqlTimes100(v) == IF IsNum(v) THEN VMul(v, 100) ELSE v

QueriesAccuracy(acts, preds, start_date, end_date) ==
    LET comparison == JoinOnDate(acts, preds, start_date, end_date)
        diff(i) == comparison[i].actual_value - comparison[i].predicted_value
    IN  [total_predictions |-> Len(comparison),
         mae |-> SqlAvg([i \in DOMAIN comparison |-> V(Abs(diff(i)))]),
         rmse |-> VSqrt(SqlAvg([i \in DOMAIN comparison |-> V(diff(i) * diff(i))])),
         mape |-> SqlTimes100(SqlAvg([i \in DOMAIN comparison |->
                     NullIfZeroDiv(Abs(diff(i)), comparison[i].actual_value)])),
         correlation |->
             SqlCorr([i \in DOMAIN comparison |-> comparison[i].actual_value],
                     [i \in DOMAIN comparison |-> comparison[i].predicted_value])]

queries_get_prediction_accuracy_metrics ==
    \E s \in Dates, e \in Dates \cup {NoEnd} :
        /\ Idle
        /\ call' = [op |-> "get_prediction_accuracy_metrics", impl |-> "queries",
                    start |-> s, end |-> EndOf(s, e)]
        /\ result' = QueriesAccuracy(actuals, predictions, s, EndOf(s, e))
        /\ outcome' = "returned"
        /\ UNCHANGED <<actuals, predictions, session>>

-----------------------------------------------------------------------------
-----------------------------------------------------------------------------
(* Daily sales: services/local_data.py and services/data_service.py.        *)

\* filtered_df.groupby(date).agg({'SalesAmount': ['sum', 'count', 'mean']}),
\* then each record's date as isoformat text.
LocalDailySales(df, start_date, end_date) ==
    LET g == GroupByDate(DateMask(df, start_date, end_date))
    IN  [i \in DOMAIN g |->
            [date |-> IsoFormat(g[i].date),
             total_sales |-> V(g[i].sum),
             total_records |-> g[i].count,
             average_value |-> Q(g[i].sum, g[i].count)]]

local_get_daily_sales ==
    \E s \in RollupDates, e \in RollupDates \cup {NoEnd} :
        /\ Idle
        /\ call' = [op |-> "get_daily_sales", impl |-> "local_data",
                    start |-> s, end |-> EndOf(s, e)]
        /\ result' = LocalDailySales(actuals, s, EndOf(s, e))
        /\ outcome' = "returned"
        /\ UNCHANGED <<actuals, predictions, session>>

\* SELECT DATE(DateKey) as date, SUM(SalesAmount), COUNT(*), AVG(SalesAmount)
\* ... WHERE DATE(DateKey) BETWEEN ... GROUP BY date ORDER BY date
ServiceDailySales(t, start_date, end_date) ==
    LET g == SqlGroupByDate(t, start_date, end_date)
    IN  [i \in DOMAIN g |->
            [date |-> IsoFormat(g[i].date),
             total_sales |-> V(g[i].sum),
             total_records |-> g[i].count,
             average_value |-> Q(g[i].sum, g[i].count)]]

service_get_daily_sales ==
    \E s \in RollupDates, e \in RollupDates \cup {NoEnd} :
        /\ Idle
        /\ call' = [op |-> "get_daily_sales", impl |-> "data_service",
                    start |-> s, end |-> EndOf(s, e)]
        /\ result' = ServiceDailySales(actuals, s, EndOf(s, e))
        /\ outcome' = "returned"
        /\ UNCHANGED <<actuals, predictions, session>>

-----------------------------------------------------------------------------
(* Weekly sales: utils/data_queries.py.                                     *)

RECURSIVE Digits(_)
Digits(n) == IF n < 10 THEN <<n>> ELSE Digits(n \div 10) \o <<n % 10>>

\* Text order of two digit strings (the labels share the prefix 'Week ').
RECURSIVE LexLeq(_, _)
LexLeq(a, b) ==
    IF a = << >> THEN TRUE
    ELSE IF b = << >> THEN FALSE
    ELSE IF Head(a) # Head(b) THEN Head(a) < Head(b)
    ELSE LexLeq(Tail(a), Tail(b))

\* ORDER BY week: the labels in text order.
RECURSIVE OrderByLabel(_)
OrderByLabel(S) ==
    IF S = {} THEN << >>
    ELSE LET m == CHOOSE x \in S : \A y \in S : LexLeq(Digits(x), Digits(y))
         IN  <<m>> \o OrderByLabel(S \ {m})

RECURSIVE SumAt(_, _)
SumAt(t, I) ==
    IF I = {} THEN 0
    ELSE LET i == CHOOSE x \in I : TRUE IN t[i].SalesAmount + SumAt(t, I \ {i})

\* SELECT CalendarWeekLabel AS week, SUM(SalesAmount) AS total_net_sales,
\*        COUNT(DISTINCT SalesKey) AS transaction_count
\* WHERE DATE(DateKey) BETWEEN start AND end GROUP BY week ORDER BY week
WeeklySales(t, start_date, end_date) ==
    LET rows == {i \in DOMAIN t : Between(t[i], start_date, end_date)}
        weeks == OrderByLabel({CalendarWeekLabel(t[i].DateKey) : i \in rows})
        grp(w) == {i \in rows : CalendarWeekLabel(t[i].DateKey) = w}
    IN  [k \in DOMAIN weeks |->
            [week |-> weeks[k],
             total_net_sales |-> SumAt(t, grp(weeks[k])),
             transaction_count |-> Cardinality(grp(weeks[k]))]]

get_weekly_sales ==
    \E s \in RollupDates, e \in RollupDates :
        /\ Idle
        /\ call' = [op |-> "get_weekly_sales", impl |-> "data_queries",
                    start |-> s, end |-> e]
        /\ result' = WeeklySales(actuals, s, e)
        /\ outcome' = "returned"
        /\ UNCHANGED <<actuals, predictions, session>>

-----------------------------------------------------------------------------
(* Monthly and quarterly net sales: utils/sales_calculations.py.            *)

\* (mutant) the working frame is the caller's frame itself.
DfCopyAlias(df) == [of |-> "caller", rows |-> df]

\* data = df.copy(): the working frame of a function is a frame of its own
\* holding the caller's rows.
DfCopy(df) == [of |-> "copy", rows |-> df]

\* The caller's frame when the function returns.  Column assignments
\* (data['year'] = ...) go to the frame the working name is bound to: the
\* caller's frame only if the name was bound to it and not re-bound to a
\* filtered frame (data = data[mask]) before the assignment.
CallerFrameAfter(df, rebound, written) ==
    IF DfCopy(df).of = "caller" /\ ~rebound THEN written ELSE df

\* year: Optional[int] = None
NoYear == 0

\* data = data[data['date'].dt.year == year] when a year is given.
YearFilter(df, year) ==
    IF year # NoYear THEN SelectSeq(df, LAMBDA r : Year(r.DateKey) = year) ELSE df

\* Pairs <<year, period>> in ascending order (groupby sorts its keys).
RECURSIVE SortedPairs(_)
SortedPairs(S) ==
    IF S = {} THEN << >>
    ELSE LET m == CHOOSE x \in S : \A y \in S :
                      x[1] < y[1] \/ (x[1] = y[1] /\ x[2] <= y[2])
         IN  <<m>> \o SortedPairs(S \ {m})

\* Rows sorted by their date column (sort_values('date')); the dates of the
\* rows are distinct.
RECURSIVE SortByDate(_)
SortByDate(R) ==
    IF R = {} THEN << >>
    ELSE LET m == CHOOSE x \in R : \A y \in R : x.date <= y.date
         IN  <<m>> \o SortByDate(R \ {m})

\* process_monthly(df)
ProcessMonthly(df, year) ==
    LET data == YearFilter(df, year)
        keys == SortedPairs({<<Year(data[i].DateKey), Month(data[i].DateKey)>>
                               : i \in DOMAIN data})
        grp(k) == {i \in DOMAIN data : Year(data[i].DateKey) = k[1]
                                       /\ Month(data[i].DateKey) = k[2]}
    IN  SortByDate({[year |-> keys[j][1], month |-> keys[j][2],
                     net_sales |-> SumAt(data, grp(keys[j])),
                     date |-> ToDatetime(keys[j][1], keys[j][2], 1)]
                    : j \in DOMAIN keys})

calculate_monthly_net_sales ==
    \E year \in {NoYear} \cup {Year(d) : d \in RollupDates} :
        /\ Idle
        /\ call' = [op |-> "calculate_monthly_net_sales",
                    impl |-> "sales_calculations", year |-> year]
        /\ result' = <<ProcessMonthly(actuals, year), ProcessMonthly(predictions, year)>>
        /\ outcome' = "returned"
        /\ LET written(df) == [i \in DOMAIN df |->
                                  df[i] @@ [year |-> Year(df[i].DateKey),
                                            month |-> Month(df[i].DateKey)]]
           IN  /\ actuals' = CallerFrameAfter(actuals, year # NoYear, written(actuals))
               /\ predictions' = CallerFrameAfter(predictions, year # NoYear,
                                                  written(predictions))
        /\ UNCHANGED session

ProcessQuarterlyLastMonth(df, year) ==
    LET data == YearFilter(df, year)
        keys == SortedPairs({<<Year(data[i].DateKey), Quarter(data[i].DateKey)>>
                               : i \in DOMAIN data})
        grp(k) == {i \in DOMAIN data : Year(data[i].DateKey) = k[1]
                                       /\ Quarter(data[i].DateKey) = k[2]}
    IN  SortByDate({[year |-> keys[j][1], quarter |-> keys[j][2],
                     net_sales |-> SumAt(data, grp(keys[j])),
                     month |-> keys[j][2] * 3,
                     date |-> ToDatetime(keys[j][1], keys[j][2] * 3, 1)]
                    : j \in DOMAIN keys})

\* process_quarterly(df)
ProcessQuarterly(df, year) ==
    LET data == YearFilter(df, year)
        keys == SortedPairs({<<Year(data[i].DateKey), Quarter(data[i].DateKey)>>
                               : i \in DOMAIN data})
        grp(k) == {i \in DOMAIN data : Year(data[i].DateKey) = k[1]
                                       /\ Quarter(data[i].DateKey) = k[2]}
    IN  SortByDate({[year |-> keys[j][1], quarter |-> keys[j][2],
                     net_sales |-> SumAt(data, grp(keys[j])),
                     month |-> keys[j][2] * 3 - 2,
                     date |-> ToDatetime(keys[j][1], keys[j][2] * 3 - 2, 1)]
                    : j \in DOMAIN keys})

calculate_quarterly_net_sales ==
    \E year \in {NoYear} \cup {Year(d) : d \in RollupDates} :
        /\ Idle
        /\ call' = [op |-> "calculate_quarterly_net_sales",
                    impl |-> "sales_calculations", year |-> year]
        /\ result' = <<ProcessQuarterly(actuals, year), ProcessQuarterly(predictions, year)>>
        /\ outcome' = "returned"
        /\ LET written(df) == [i \in DOMAIN df |->
                                  df[i] @@ [year |-> Year(df[i].DateKey),
                                            quarter |-> Quarter(df[i].DateKey)]]
           IN  /\ actuals' = CallerFrameAfter(actuals, year # NoYear, written(actuals))
               /\ predictions' = CallerFrameAfter(predictions, year # NoYear,
                                                  written(predictions))
        /\ UNCHANGED session

-----------------------------------------------------------------------------
-----------------------------------------------------------------------------
(* Loading: services/data_source.py, utils/sales_calculations.py and        *)
(* utils/api_client.py.  Each load runs one query (or request) per table;   *)
(* the input 'fault' says which of them, if any, fails.                     *)

Faults == {"none", "actual", "predicted"}

\* An argument left at None (all of quarter, month, week, limit, start_date
\* and end_date are tested for truth before use).
Unset == 0

\* EXTRACT(WEEK FROM DateKey): weeks begin on Sunday, the days before the
\* first Sunday of the year are week 0.
ExtractWeek(n) == (DayOfYear(n) + 6 - (n % 7)) \div 7

\* limit: Optional[int] = 700
DefaultLimit == 700

\* ORDER BY DateKey LIMIT n of the predicted query: the first n rows (no LIMIT
\* clause when the argument is unset).
Limit(rows, limit) ==
    IF limit = Unset \/ Len(rows) <= limit THEN rows ELSE SubSeq(rows, 1, limit)

\* LIMIT n inside the daily_aggregates CTE of the actual query, which has no
\* ORDER BY: any n of the rows, ordered by the outer query afterwards.
LimitAny(rows, limit) ==
    IF limit = Unset \/ Len(rows) <= limit THEN {rows}
    ELSE {[k \in 1..limit |-> rows[SortedSeq(I)[k]]] :
             I \in {J \in SUBSET DOMAIN rows : Cardinality(J) = limit}}

\* The conditions BigQueryDataSource.load_dashboard_data joins with AND.
SourceConditions(r, year, quarter, month, week) ==
    /\ year # Unset => Year(r.DateKey) = year
    /\ quarter # Unset => Quarter(r.DateKey) = quarter
    /\ month # Unset => Month(r.DateKey) = month
    /\ week # Unset => ExtractWeek(r.DateKey) = week

\* GROUP BY DateKey of the rows that pass the conditions.
DailyAggregates(t, year, quarter, month, week) ==
    GroupByDate(SelectSeq(t, LAMBDA r : SourceConditions(r, year, quarter, month, week)))

\* The frame of the actual query: the date parts, the summed amount and the
\* row count of each day, with the 'date' column added.
ActualFrame(g) ==
    [i \in DOMAIN g |->
        [DateKey |-> g[i].date, year |-> Year(g[i].date),
         month |-> Month(g[i].date), quarter |-> Quarter(g[i].date),
         week |-> ExtractWeek(g[i].date), net_sales |-> g[i].sum,
         transaction_count |-> g[i].count, date |-> g[i].date]]

\* The frame of the predicted query (it selects no transaction_count).
PredictedFrame(g) ==
    [i \in DOMAIN g |->
        [DateKey |-> g[i].date, year |-> Year(g[i].date),
         month |-> Month(g[i].date), quarter |-> Quarter(g[i].date),
         week |-> ExtractWeek(g[i].date), net_sales |-> g[i].sum,
         date |-> g[i].date]]

\* BigQueryDataSource.load_dashboard_data: an exception of either query is
\* logged and two empty frames are returned.
BigQueryDataSource_load_dashboard_data ==
    \E year \in {Unset} \cup {Year(d) : d \in RollupDates},
       quarter \in {Unset, 1}, month \in {Unset, 2}, week \in {Unset, 1},
       fault \in Faults :
        /\ Idle
        /\ call' = [op |-> "load_dashboard_data", impl |-> "BigQueryDataSource",
                    year |-> year, quarter |-> quarter, month |-> month,
                    week |-> week, fault |-> fault]
        /\ IF fault = "none"
           THEN \E a \in LimitAny(DailyAggregates(actuals, year, quarter, month, week),
                                  DefaultLimit) :
                    result' = <<ActualFrame(a),
                                PredictedFrame(Limit(DailyAggregates(predictions, year,
                                    quarter, month, week), DefaultLimit))>>
           ELSE result' = << << >>, << >> >>
        /\ outcome' = "returned"
        /\ UNCHANGED <<actuals, predictions, session>>

\* WHERE CalendarYear = year AND DateKey >= start_date AND DateKey <= end_date,
\* each condition present only when its argument is set.
WhereClause(r, year, start_date, end_date) ==
    /\ year # Unset => Year(r.DateKey) = year
    /\ start_date # Unset => r.DateKey >= start_date
    /\ end_date # Unset => r.DateKey <= end_date

\* SELECT DISTINCT ... ORDER BY DateKey: the distinct rows that pass the WHERE
\* clause (SalesKey is not selected, so equal rows collapse).
SelectDistinct(t, year, start_date, end_date) ==
    {[DateKey |-> t[i].DateKey, net_sales |-> t[i].SalesAmount,
      year |-> Year(t[i].DateKey), month |-> Month(t[i].DateKey),
      date |-> t[i].DateKey]
       : i \in {j \in DOMAIN t : WhereClause(t[j], year, start_date, end_date)}}

\* ... LIMIT n: any n rows that come first in DateKey order (rows of the same
\* DateKey may come in either order).
LimitedSets(R, limit) ==
    IF limit = Unset \/ Cardinality(R) <= limit THEN {R}
    ELSE {S \in SUBSET R : /\ Cardinality(S) = limit
                           /\ \A x \in S, y \in R \ S : x.DateKey <= y.DateKey}

RECURSIVE OrderByDateKey(_)
OrderByDateKey(R) ==
    IF R = {} THEN << >>
    ELSE LET m == CHOOSE x \in R : \A y \in R :
                      \/ x.DateKey < y.DateKey
                      \/ x.DateKey = y.DateKey /\ x.net_sales <= y.net_sales
         IN  <<m>> \o OrderByDateKey(R \ {m})

\* utils/sales_calculations.load_dashboard_data: an exception of either query
\* is printed and raised again.
load_dashboard_data ==
    \E year \in {Unset} \cup {Year(d) : d \in RollupDates},
       start_date \in {Unset, 1, 32}, end_date \in {Unset, 91, 366},
       limit \in {Unset, 1}, fault \in Faults :
        /\ Idle
        /\ call' = [op |-> "load_dashboard_data", impl |-> "sales_calculations",
                    year |-> year, start |-> start_date, end |-> end_date,
                    limit |-> limit, fault |-> fault]
        /\ IF fault = "none"
           THEN /\ \E A \in LimitedSets(SelectDistinct(actuals, year, start_date,
                                                       end_date), limit),
                      P \in LimitedSets(SelectDistinct(predictions, year, start_date,
                                                       end_date), limit) :
                       result' = <<OrderByDateKey(A), OrderByDateKey(P)>>
                /\ outcome' = "returned"
           ELSE /\ result' = << >>
                /\ outcome' = "raised"
        /\ UNCHANGED <<actuals, predictions, session>>

\* APIClient.get_daily_sales through _make_request: the JSON of the
\* daily-sales endpoint, or None when the request raised a RequestException.
APIClient_get_daily_sales ==
    \E s \in RollupDates, e \in RollupDates \cup {NoEnd}, fault \in {"none", "actual"} :
        /\ Idle
        /\ call' = [op |-> "get_daily_sales", impl |-> "APIClient",
                    start |-> s, end |-> EndOf(s, e), fault |-> fault]
        /\ result' = IF fault = "none" THEN LocalDailySales(actuals, s, EndOf(s, e))
                     ELSE None
        /\ outcome' = "returned"
        /\ UNCHANGED <<actuals, predictions, session>>

-----------------------------------------------------------------------------
(* Time selectors: pages/2_Geography.py and pages/1_Actuals_vs_Predictions. *)
(* The Geography page keeps its selections in st.session_state; its frame   *)
(* sales_df is the CSV in file order.                                       *)

\* Monday = 1 ... Sunday = 7 (2007-01-01 is a Monday).
IsoWeekday(n) == ((n - 1) % 7) + 1

\* The Thursday of the ISO week of a date decides the week's year and number.
IsoThursday(n) == n - IsoWeekday(n) + 4

\* DateKey.dt.isocalendar().week
IsoWeek(n) == ((DayOfYear(IsoThursday(n)) - 1) \div 7) + 1

\* "All Years", "All Months", "All Weeks", "All Quarters"
AllYears == 0
AllMonths == 0
AllWeeks == 0
AllQuarters == 0

\* The selections when the page is first run.
NoSelection ==
    [year_filter |-> AllYears, month_filter |-> AllMonths, week_filter |-> AllWeeks,
     selected_month |-> AllMonths, selected_week |-> AllWeeks]

\* get_weeks_for_month(df, month): the ISO week numbers of the rows of the
\* month, of every year.
get_weeks_for_month(df, month) ==
    IF month = AllMonths
    THEN {IsoWeek(df[i].DateKey) : i \in DOMAIN df}
    ELSE {IsoWeek(df[i].DateKey) : i \in {j \in DOMAIN df : Month(df[j].DateKey) = month}}

\* get_month_for_week(df, week_num): the month of the first row, in frame
\* order, whose ISO week number is the week's.
get_month_for_week(df, week) ==
    IF week = AllWeeks THEN AllMonths
    ELSE LET week_data == SelectSeq(df, LAMBDA r : IsoWeek(r.DateKey) = week)
         IN  IF Len(week_data) > 0 THEN Month(week_data[1].DateKey) ELSE AllMonths

\* years = sorted(sales_df['DateKey'].dt.year.unique())
YearOptions(df) == {AllYears} \cup {Year(df[i].DateKey) : i \in DOMAIN df}

\* month_options = ["All Months"] + ["01" .. "12"]
MonthOptions == {AllMonths} \cup (1..12)

\* week_options = ["All Weeks"] + the weeks of the selected month
WeekOptions(df, month) == {AllWeeks} \cup get_weeks_for_month(df, month)

\* The page stops before any selector when the frame could not be loaded or
\* has no row.
PageRuns == Idle /\ Len(actuals) > 0

\* The year selectbox (no callback).
select_year ==
    \E y \in YearOptions(actuals) :
        /\ PageRuns
        /\ session' = [session EXCEPT !.year_filter = y]
        /\ UNCHANGED <<actuals, predictions, call, result, outcome>>

\* (mutant) the month callback without the reset of the week.
on_month_change_keeps_week ==
    \E m \in MonthOptions :
        /\ PageRuns
        /\ m # session.month_filter
        /\ session' = [session EXCEPT !.month_filter = m, !.selected_month = m]
        /\ UNCHANGED <<actuals, predictions, call, result, outcome>>

\* on_month_change, Daily View: a selected week that the new month does not
\* have is reset to "All Weeks".
on_month_change ==
    \E m \in MonthOptions :
        /\ PageRuns
        /\ m # session.month_filter
        /\ session' =
              [session EXCEPT
                 !.month_filter = m,
                 !.week_filter =
                     IF m # AllMonths /\ session.week_filter # AllWeeks
                        /\ session.week_filter \notin get_weeks_for_month(actuals, m)
                     THEN AllWeeks ELSE session.week_filter,
                 !.selected_month = m]
        /\ UNCHANGED <<actuals, predictions, call, result, outcome>>

\* on_week_change, Daily View: the month selection follows the week.
on_week_change ==
    \E w \in WeekOptions(actuals, session.month_filter) :
        /\ PageRuns
        /\ w # session.week_filter
        /\ session' =
              IF w # AllWeeks
              THEN [session EXCEPT
                      !.week_filter = w,
                      !.month_filter = get_month_for_week(actuals, w),
                      !.selected_month = get_month_for_week(actuals, w),
                      !.selected_week = w]
              ELSE [session EXCEPT !.week_filter = w, !.selected_week = w]
        /\ UNCHANGED <<actuals, predictions, call, result, outcome>>

\* (mutant) the month filter applied whatever the week filter is.
TimeFilterMonthAlways(r, view_period, year_filter, month_filter, week_filter, quarter_filter) ==
    /\ (view_period = "Quarterly View" /\ quarter_filter # AllQuarters) =>
           Quarter(r.DateKey) = quarter_filter
    /\ (view_period = "Daily View" /\ week_filter # AllWeeks) =>
           IsoWeek(r.DateKey) = week_filter
    /\ (view_period \in {"Daily View", "Monthly View"} /\ month_filter # AllMonths) =>
           Month(r.DateKey) = month_filter
    /\ year_filter # AllYears => Year(r.DateKey) = year_filter

\* The rows prepare_time_comparison keeps: the period filter of the view
\* (in the Daily View the week filter has priority over the month filter),
\* then the year filter.
TimeFilter(r, view_period, year_filter, month_filter, week_filter, quarter_filter) ==
    /\ (view_period = "Quarterly View" /\ quarter_filter # AllQuarters) =>
           Quarter(r.DateKey) = quarter_filter
    /\ (view_period = "Daily View" /\ week_filter # AllWeeks) =>
           IsoWeek(r.DateKey) = week_filter
    /\ (view_period = "Daily View" /\ week_filter = AllWeeks /\ month_filter # AllMonths) =>
           Month(r.DateKey) = month_filter
    /\ (view_period = "Monthly View" /\ month_filter # AllMonths) =>
           Month(r.DateKey) = month_filter
    /\ year_filter # AllYears => Year(r.DateKey) = year_filter

\* comparison_data['period']: quarter, month or ISO week number of the row.
PeriodOf(r, view_period) ==
    IF view_period = "Quarterly View" THEN Quarter(r.DateKey)
    ELSE IF view_period = "Monthly View" THEN Month(r.DateKey)
    ELSE IsoWeek(r.DateKey)

\* Whether 'period' is one of the grouping columns.
GroupsByPeriod(view_period, month_filter, week_filter, quarter_filter) ==
    \/ view_period = "Quarterly View" /\ quarter_filter = AllQuarters
    \/ view_period = "Monthly View" /\ month_filter = AllMonths
    \/ view_period = "Daily View" /\ (week_filter # AllWeeks \/ month_filter = AllMonths)

\* The 'Period' column: a prefix and a number, or '-'.
PeriodText(p, view_period, month_filter, week_filter, quarter_filter) ==
    IF GroupsByPeriod(view_period, month_filter, week_filter, quarter_filter)
    THEN IF view_period = "Quarterly View" THEN [prefix |-> "Q", n |-> p]
         ELSE IF view_period = "Daily View" /\ week_filter # AllWeeks
              THEN [prefix |-> "Week ", n |-> p]
              ELSE [prefix |-> "", n |-> p]
    ELSE IF view_period = "Quarterly View" /\ quarter_filter # AllQuarters
         THEN [prefix |-> "Q", n |-> quarter_filter]
         ELSE IF view_period \in {"Daily View", "Monthly View"} /\ month_filter # AllMonths
              THEN [prefix |-> "", n |-> month_filter]
              ELSE [prefix |-> "-", n |-> 0]

\* prepare_time_comparison with no region filter and one continent in the
\* data: one row per (year[, period]) group of the filtered rows, with the
\* mean and the sum of net_sales (before format_currency), sorted by year.
PrepareTimeComparison(df, view_period, year_filter, month_filter, week_filter, quarter_filter) ==
    LET data == SelectSeq(df, LAMBDA r : TimeFilter(r, view_period, year_filter,
                                  month_filter, week_filter, quarter_filter))
        byp == GroupsByPeriod(view_period, month_filter, week_filter, quarter_filter)
        key(r) == <<Year(r.DateKey), IF byp THEN PeriodOf(r, view_period) ELSE 0>>
        keys == SortedPairs({key(data[i]) : i \in DOMAIN data})
        grp(k) == {i \in DOMAIN data : key(data[i]) = k}
    IN  [j \in DOMAIN keys |->
            [Year |-> keys[j][1],
             Period |-> PeriodText(keys[j][2], view_period, month_filter, week_filter,
                                   quarter_filter),
             avg_sales |-> Q(SumAt(data, grp(keys[j])), Cardinality(grp(keys[j]))),
             total_sales |-> SumAt(data, grp(keys[j]))]]

\* The filter values the page can pass: week only in the Daily View, quarter
\* only in the Quarterly View (where the month is "All Months").
TimeFilterArgs ==
    {a \in [view : {"Daily View", "Monthly View", "Quarterly View"},
            year : {AllYears, 2007, 2008}, month : {AllMonths, 1, 2},
            week : {AllWeeks, 1, 5}, quarter : {AllQuarters, 1}] :
        /\ a.view # "Daily View" => a.week = AllWeeks
        /\ a.view # "Quarterly View" => a.quarter = AllQuarters
        /\ a.view = "Quarterly View" => a.month = AllMonths}

prepare_time_comparison ==
    \E a \in TimeFilterArgs :
        /\ PageRuns
        /\ call' = [op |-> "prepare_time_comparison", impl |-> "Geography",
                    view |-> a.view, year |-> a.year, month |-> a.month,
                    week |-> a.week, quarter |-> a.quarter]
        /\ result' = PrepareTimeComparison(actuals, a.view, a.year, a.month, a.week,
                                           a.quarter)
        /\ outcome' = "returned"
        /\ actuals' = CallerFrameAfter(actuals, FALSE,
                           [i \in DOMAIN actuals |->
                               actuals[i] @@ [year |-> Year(actuals[i].DateKey),
                                              period |-> PeriodOf(actuals[i], a.view)]])
        /\ UNCHANGED <<predictions, session>>

\* get_available_months(df, year)
get_available_months(R, year) ==
    {Month(r.DateKey) : r \in {x \in R : year = Unset \/ Year(x.DateKey) = year}}

\* get_available_weeks(df, year, month)
get_available_weeks(R, year, month) ==
    {IsoWeek(r.DateKey) : r \in {x \in R : /\ year = Unset \/ Year(x.DateKey) = year
                                           /\ month = Unset \/ Month(x.DateKey) = month}}

\* The Daily View sidebar of the Actuals-vs-Predictions page: df_actual is
\* load_dashboard_data() with its default arguments; the month options are
\* those of the selected year, the week options those of the year and month.
daily_view_filters ==
    LET df_actual == SelectDistinct(actuals, EpochYear, Unset, Unset)
    IN  \E year \in {Unset} \cup {r.year : r \in df_actual} :
        \E month \in {Unset} \cup get_available_months(df_actual, year) :
            /\ Idle
            /\ call' = [op |-> "daily_view_filters", impl |-> "Actuals_vs_Predictions",
                        year |-> year, month |-> month]
            /\ result' = [available_months |-> SortedSeq(get_available_months(df_actual, year)),
                          available_weeks |->
                              SortedSeq(get_available_weeks(df_actual, year, month))]
            /\ outcome' = "returned"
            /\ UNCHANGED <<actuals, predictions, session>>

-----------------------------------------------------------------------------
(* The windowed calls of services/local_data.py and services/data_service.py *)
(* with the window bounds drawn from the dates of the records.               *)

\* Two consecutive days and a day 30 days after the second.
WindowDays == {1, 2, 32}

\* get_daily_predictions: as get_daily_sales, on the predictions file.
LocalDailyPredictions(df, start_date, end_date) ==
    LET g == GroupByDate(DateMask(df, start_date, end_date))
    IN  [i \in DOMAIN g |->
            [date |-> IsoFormat(g[i].date),
             predicted_sales |-> V(g[i].sum),
             total_records |-> g[i].count,
             average_predicted_value |-> Q(g[i].sum, g[i].count)]]

window_local_get_daily_sales ==
    \E s \in WindowDays, e \in WindowDays \cup {NoEnd} :
        /\ Idle
        /\ call' = [op |-> "get_daily_sales", impl |-> "local_data",
                    start |-> s, end |-> EndOf(s, e)]
        /\ result' = LocalDailySales(actuals, s, EndOf(s, e))
        /\ outcome' = "returned"
        /\ UNCHANGED <<actuals, predictions, session>>

window_service_get_daily_sales ==
    \E s \in WindowDays, e \in WindowDays \cup {NoEnd} :
        /\ Idle
        /\ call' = [op |-> "get_daily_sales", impl |-> "data_service",
                    start |-> s, end |-> EndOf(s, e)]
        /\ result' = ServiceDailySales(actuals, s, EndOf(s, e))
        /\ outcome' = "returned"
        /\ UNCHANGED <<actuals, predictions, session>>

window_local_get_daily_predictions ==
    \E s \in WindowDays, e \in WindowDays \cup {NoEnd} :
        /\ Idle
        /\ call' = [op |-> "get_daily_predictions", impl |-> "local_data",
                    start |-> s, end |-> EndOf(s, e)]
        /\ result' = LocalDailyPredictions(predictions, s, EndOf(s, e))
        /\ outcome' = "returned"
        /\ UNCHANGED <<actuals, predictions, session>>

window_local_get_actuals_vs_predictions ==
    \E s \in WindowDays, e \in WindowDays \cup {NoEnd} :
        /\ Idle
        /\ call' = [op |-> "get_actuals_vs_predictions", impl |-> "local_data",
                    start |-> s, end |-> EndOf(s, e)]
        /\ result' = LocalComparison(actuals, predictions, s, EndOf(s, e))
        /\ outcome' = "returned"
        /\ UNCHANGED <<actuals, predictions, session>>

-----------------------------------------------------------------------------
(* Promotion impact: services/queries.py, utils/data_queries.py,            *)
(* utils/sales_calculations.py and the endpoint of api/sales_api.py.        *)

PromoDates == {1, 2}
PromoAmounts == Amounts \cup {4}

\* A fact row with its promotion columns.  PromotionKey 1 is the row of the
\* promotion dimension that stands for no promotion; PromotionName is in
\* one-to-one correspondence with PromotionKey and is modelled by it.
PromoRecords ==
    [DateKey : PromoDates, SalesAmount : PromoAmounts,
     PromotionKey : {1, 2}, DiscountAmount : {0, 1}]

\* The tables of at most MaxRecs rows, one row order for each multiset of
\* rows as for TablesOn.
PromoTables ==
    LET rank(x) == ((x.DateKey * 4 + x.PromotionKey) * 4 + x.DiscountAmount) * 16
                   + x.SalesAmount
    IN  UNION { { t \in [1..n -> PromoRecords] :
                     \A i \in 1..(n - 1) : rank(t[i]) <= rank(t[i + 1]) }
                : n \in 0..MaxRecs }

\* (mutant) the promotion flag taken the wrong way round.
HasPromotionKeyOne(r) == r.PromotionKey = 1

\* CASE WHEN PromotionKey != 1 THEN TRUE ELSE FALSE END AS has_promotion
HasPromotion(r) == r.PromotionKey # 1

\* SELECT has_promotion, SUM(..), AVG(..), COUNT(DISTINCT SalesKey)
\* ... WHERE DATE(DateKey) BETWEEN ... GROUP BY has_promotion: one row for
\* each flag value that some row of the window has.  The quantity columns
\* are aggregated the same way as the amount columns and are left out.
PromotionGroups(t, start_date, end_date) ==
    LET rows == SelectSeq(t, LAMBDA r : Between(r, start_date, end_date))
        grp(f) == {i \in DOMAIN rows : HasPromotion(rows[i]) = f}
        total(f) == SumInts([i \in DOMAIN rows |->
                                IF i \in grp(f) THEN rows[i].SalesAmount ELSE 0], 1)
    IN  { [has_promotion |-> f,
           total_sales |-> V(total(f)),
           avg_sale_value |-> Q(total(f), Cardinality(grp(f))),
           transaction_count |-> Cardinality(grp(f))] : f \in {f \in BOOLEAN : grp(f) # {}} }

\* The query has no ORDER BY: the rows come in any order.
AnyOrder(S) ==
    {q \in [1..Cardinality(S) -> S] : \A x \in S : \E i \in DOMAIN q : q[i] = x}

queries_get_promotion_impact ==
    \E s \in PromoDates, e \in PromoDates :
    \E rows \in AnyOrder(PromotionGroups(actuals, s, e)) :
        /\ Idle
        /\ call' = [op |-> "get_promotion_impact", impl |-> "queries",
                    start |-> s, end |-> e]
        /\ result' = rows
        /\ outcome' = "returned"
        /\ UNCHANGED <<actuals, predictions, session>>

data_queries_get_promotion_impact ==
    \E s \in PromoDates, e \in PromoDates :
    \E rows \in AnyOrder(PromotionGroups(actuals, s, e)) :
        /\ Idle
        /\ call' = [op |-> "get_promotion_impact", impl |-> "data_queries",
                    start |-> s, end |-> e]
        /\ result' = rows
        /\ outcome' = "returned"
        /\ UNCHANGED <<actuals, predictions, session>>

\* round(v, ndigits) of a float column: to the nearest multiple of
\* 10^-ndigits, a tie to the even one; non-numbers are kept.
Round(v, ndigits) ==
    LET s == 10 ^ ndigits
        fl == (v.n * s) \div v.d
        twice == 2 * (v.n * s - fl * v.d)
        r == IF twice > v.d \/ (twice = v.d /\ fl % 2 = 1) THEN fl + 1 ELSE fl
    IN  IF IsNum(v) THEN Q(r, s) ELSE v

\* df.groupby('PromotionName').agg({'net_sales': ['mean', 'sum', 'count'],
\* 'DiscountAmount': ['mean', 'sum']}).round(2), then
\* ROI = ((net_sales sum - DiscountAmount sum) / DiscountAmount sum).round(3)
PromotionStats(df) ==
    LET names == SortedSeq({df[i].PromotionKey : i \in DOMAIN df})
        grp(k) == {i \in DOMAIN df : df[i].PromotionKey = k}
        sum(k, col) == SumInts([i \in DOMAIN df |->
                                   IF i \in grp(k) THEN df[i][col] ELSE 0], 1)
        net(k) == Round(V(sum(k, "SalesAmount")), 2)
        disc(k) == Round(V(sum(k, "DiscountAmount")), 2)
    IN  [j \in DOMAIN names |->
            [PromotionName |-> names[j],
             net_sales_mean |-> Round(Q(sum(names[j], "SalesAmount"),
                                        Cardinality(grp(names[j]))), 2),
             net_sales_sum |-> net(names[j]),
             net_sales_count |-> Cardinality(grp(names[j])),
             DiscountAmount_mean |-> Round(Q(sum(names[j], "DiscountAmount"),
                                             Cardinality(grp(names[j]))), 2),
             DiscountAmount_sum |-> disc(names[j]),
             ROI |-> Round(VDiv(VSub(net(names[j]), disc(names[j])), disc(names[j])), 3)]]

calculate_promotion_impact ==
    /\ Idle
    /\ call' = [op |-> "calculate_promotion_impact", impl |-> "sales_calculations",
                start |-> 1, end |-> 2]
    /\ result' = PromotionStats(actuals)
    /\ outcome' = "returned"
    /\ UNCHANGED <<actuals, predictions, session>>

\* GET /api/promotion-impact: the handler returns get_daily_sales(start_date,
\* end_date) of services/local_data.py; its rows have none of the required
\* fields of response_model List[PromotionImpact], so serialising a
\* non-empty list raises after the handler's try block.
promotion_impact_endpoint ==
    \E s \in PromoDates, e \in PromoDates :
        /\ Idle
        /\ call' = [op |-> "get_promotion_impact", impl |-> "sales_api",
                    start |-> s, end |-> e]
        /\ result' = IF LocalDailySales(actuals, s, e) = << >> THEN << >> ELSE None
        /\ outcome' = IF LocalDailySales(actuals, s, e) = << >> THEN "returned" ELSE "raised"
        /\ UNCHANGED <<actuals, predictions, session>>

-----------------------------------------------------------------------------
(* Operations on the frames a page holds in memory: the Geography page's    *)
(* sales_df and the df_actual / df_predicted of the Actuals-vs-Predictions  *)
(* page.  A row has its country (a country has one country_geojson and one  *)
(* continent), here a number so that groupby's key order is the numeric one. *)

\* Days in one month, in two months of a quarter, in two quarters and in two
\* years.
FrameDates == {1, 2, 32, 91, 366}
Countries == {1, 2}

\* df.groupby('date')['net_sales'].sum().reset_index().  The page calls it as
\* calculate_daily_net_sales(df_actual, df_predicted, selected_year,
\* selected_month, selected_week), five arguments for one parameter; the
\* function itself takes the frame and no year.
calculate_daily_net_sales ==
    \E args \in {1, 5}, year \in {NoYear} \cup {Year(d) : d \in FrameDates} :
        /\ Idle
        /\ args = 1 => year = NoYear
        /\ call' = [op |-> "calculate_daily_net_sales", impl |-> "sales_calculations",
                    args |-> args, year |-> year]
        /\ result' = IF args = 1
                     THEN LET g == GroupByDate(actuals)
                          IN  [i \in DOMAIN g |-> [date |-> g[i].date, net_sales |-> g[i].sum]]
                     ELSE << >>
        /\ outcome' = IF args = 1 THEN "returned" ELSE "raised"
        /\ UNCHANGED <<actuals, predictions, session>>

call_get_available_months ==
    \E year \in {Unset} \cup {Year(d) : d \in FrameDates} :
        /\ Idle
        /\ call' = [op |-> "get_available_months", impl |-> "sales_calculations",
                    year |-> year]
        /\ result' = SortedSeq(get_available_months({actuals[i] : i \in DOMAIN actuals}, year))
        /\ outcome' = "returned"
        /\ actuals' = CallerFrameAfter(actuals, year # Unset, actuals)
        /\ UNCHANGED <<predictions, session>>

call_get_available_weeks ==
    \E year \in {Unset} \cup {Year(d) : d \in FrameDates},
       month \in {Unset} \cup {Month(d) : d \in FrameDates} :
        /\ Idle
        /\ call' = [op |-> "get_available_weeks", impl |-> "sales_calculations",
                    year |-> year, month |-> month]
        /\ result' = SortedSeq(get_available_weeks({actuals[i] : i \in DOMAIN actuals},
                                                   year, month))
        /\ outcome' = "returned"
        /\ actuals' = CallerFrameAfter(actuals, year # Unset \/ month # Unset, actuals)
        /\ UNCHANGED <<predictions, session>>

\* (mutant) the mean over the records of the country, not over its periods.
AggregateByPeriodPerRecord(df, freq) ==
    LET of(c) == {i \in DOMAIN df : df[i].country = c}
        keys == SortedSeq({df[i].country : i \in DOMAIN df})
    IN  [j \in DOMAIN keys |->
            [country |-> keys[j],
             net_sales |-> Q(SumAt(df, of(keys[j])), Cardinality(of(keys[j])))]]

\* aggregate_by_period(df, freq): the totals per period ('D' DateKey, 'M'
\* to_period('M'), else to_period('Q')) and country, then their mean per
\* country.
AggregateByPeriod(df, freq) ==
    LET period(r) == IF freq = "D" THEN r.DateKey
                     ELSE IF freq = "M" THEN Year(r.DateKey) * 12 + Month(r.DateKey)
                     ELSE Year(r.DateKey) * 4 + Quarter(r.DateKey)
        of(c) == {i \in DOMAIN df : df[i].country = c}
        periods(c) == SortedSeq({period(df[i]) : i \in of(c)})
        totals(c) == [k \in DOMAIN periods(c) |->
                         V(SumAt(df, {i \in of(c) : period(df[i]) = periods(c)[k]}))]
        keys == SortedSeq({df[i].country : i \in DOMAIN df})
    IN  [j \in DOMAIN keys |->
            [country |-> keys[j], net_sales |-> SeriesMean(totals(keys[j]))]]

\* The caller's frame after either aggregate function: df = df.copy(), then
\* df['year_month'] or df['year_quarter'] is assigned for 'M' and 'Q'.
AggregateFrameAfter(df, freq) ==
    CallerFrameAfter(df, FALSE,
        IF freq = "D" THEN df
        ELSE IF freq = "M"
        THEN [i \in DOMAIN df |->
                 df[i] @@ [year_month |-> Year(df[i].DateKey) * 12 + Month(df[i].DateKey)]]
        ELSE [i \in DOMAIN df |->
                 df[i] @@ [year_quarter |-> Year(df[i].DateKey) * 4 + Quarter(df[i].DateKey)]])

aggregate_by_period ==
    \E freq \in {"D", "M", "Q"} :
        /\ Idle
        /\ call' = [op |-> "aggregate_by_period", impl |-> "Geography", freq |-> freq]
        /\ result' = AggregateByPeriod(actuals, freq)
        /\ outcome' = "returned"
        /\ actuals' = AggregateFrameAfter(actuals, freq)
        /\ UNCHANGED <<predictions, session>>

\* aggregate_by_period_with_totals(df, freq): the same totals per period and
\* country, then .agg({'net_sales': ['mean', 'sum']}) per country.
AggregateByPeriodWithTotals(df, freq) ==
    LET period(r) == IF freq = "D" THEN r.DateKey
                     ELSE IF freq = "M" THEN Year(r.DateKey) * 12 + Month(r.DateKey)
                     ELSE Year(r.DateKey) * 4 + Quarter(r.DateKey)
        of(c) == {i \in DOMAIN df : df[i].country = c}
        periods(c) == SortedSeq({period(df[i]) : i \in of(c)})
        totals(c) == [k \in DOMAIN periods(c) |->
                         V(SumAt(df, {i \in of(c) : period(df[i]) = periods(c)[k]}))]
        keys == SortedSeq({df[i].country : i \in DOMAIN df})
    IN  [j \in DOMAIN keys |->
            [country |-> keys[j],
             avg_sales |-> SeriesMean(totals(keys[j])),
             total_sales |-> SumVals(totals(keys[j]), 1)]]

aggregate_by_period_with_totals ==
    \E freq \in {"D", "M", "Q"} :
        /\ Idle
        /\ call' = [op |-> "aggregate_by_period_with_totals", impl |-> "Geography",
                    freq |-> freq]
        /\ result' = AggregateByPeriodWithTotals(actuals, freq)
        /\ outcome' = "returned"
        /\ actuals' = AggregateFrameAfter(actuals, freq)
        /\ UNCHANGED <<predictions, session>>

-----------------------------------------------------------------------------
(* Two requests in progress at once: get_daily_sales of                     *)
(* services/local_data.py and get_sales_data of utils/data_loader.py.  In   *)
(* this part call, result and outcome hold one entry per request, and       *)
(* session holds the frames in memory (frames), who wrote each last (writer), *)
(* the st.cache_data entry of load_sales_data (cache) and the               *)
(* st.session_state of each request's session (state).                      *)

Requests == {1, 2}

\* A frame variable not yet assigned.
NoFrame == [loaded |-> FALSE, rows |-> << >>]

\* (mutant) one frame at module level, used by every request.
FrameShared(r) == 1

\* df and filtered_df are local variables of the call: each request has its
\* own.
FrameOf(r) == r

\* A request arrives; end_date defaults to start_date + 30 days.
conc_request ==
    \E r \in Requests, op \in {"get_daily_sales", "get_sales_data"},
       s \in Dates, e \in Dates \cup {NoEnd} :
        /\ call[r].pc = "idle"
        /\ call' = [call EXCEPT ![r] = [op |-> op, start |-> s, end |-> EndOf(s, e),
                                        pc |-> "load", read |-> r, overlapped |-> FALSE]]
        /\ UNCHANGED <<actuals, predictions, result, outcome, session>>

\* df = load_actuals_data(): pd.read_csv into a new frame.
conc_load_actuals_data ==
    \E r \in Requests :
        /\ call[r].op = "get_daily_sales" /\ call[r].pc = "load"
        /\ session' = [session EXCEPT
               !.frames[FrameOf(r)] = [loaded |-> TRUE, rows |-> actuals],
               !.writer[FrameOf(r)] = r]
        /\ call' = [call EXCEPT ![r].pc = "mask"]
        /\ UNCHANGED <<actuals, predictions, result, outcome>>

\* filtered_df = df[mask], the groupby and the records returned.
conc_get_daily_sales ==
    \E r \in Requests :
        /\ call[r].op = "get_daily_sales" /\ call[r].pc = "mask"
        /\ result' = [result EXCEPT ![r] =
               LocalDailySales(session.frames[FrameOf(r)].rows, call[r].start, call[r].end)]
        /\ session' = [session EXCEPT
               !.frames[FrameOf(r)].rows = DateMask(session.frames[FrameOf(r)].rows,
                                                    call[r].start, call[r].end),
               !.writer[FrameOf(r)] = r]
        /\ call' = [call EXCEPT ![r].pc = "done",
                                ![r].read = session.writer[FrameOf(r)],
                                ![r].overlapped = \E q \in Requests \ {r} : call[q].pc = "mask"]
        /\ outcome' = [outcome EXCEPT ![r] = "returned"]
        /\ UNCHANGED <<actuals, predictions>>

\* get_sales_data(): initialize_session_state() stores load_sales_data() in
\* the session's state unless it is there; @st.cache_data computes the frame
\* once and hands every caller a copy of the cached value.
conc_get_sales_data ==
    \E r \in Requests :
        /\ call[r].op = "get_sales_data" /\ call[r].pc = "load"
        /\ LET cached == IF session.cache.loaded THEN session.cache
                         ELSE [loaded |-> TRUE, rows |-> actuals]
               sales_df == IF session.state[r].loaded THEN session.state[r]
                           ELSE [loaded |-> TRUE, rows |-> DfCopy(cached.rows).rows]
           IN  /\ session' = [session EXCEPT
                      !.cache = IF session.state[r].loaded THEN @ ELSE cached,
                      !.state[r] = sales_df]
               /\ result' = [result EXCEPT ![r] = sales_df.rows]
        /\ call' = [call EXCEPT ![r].pc = "done"]
        /\ outcome' = [outcome EXCEPT ![r] = "returned"]
        /\ UNCHANGED <<actuals, predictions>>

\* The response is sent and the locals of the call are gone; the request's
\* slot takes the next request.
conc_deliver ==
    \E r \in Requests :
        /\ call[r].pc = "done"
        /\ call' = [call EXCEPT ![r] = [op |-> "none", start |-> 0, end |-> 0,
                                        pc |-> "idle", read |-> r, overlapped |-> FALSE]]
        /\ result' = [result EXCEPT ![r] = << >>]
        /\ outcome' = [outcome EXCEPT ![r] = "none"]
        /\ session' = IF call[r].op = "get_daily_sales"
                      THEN [session EXCEPT !.frames[FrameOf(r)] = NoFrame,
                                           !.writer[FrameOf(r)] = r]
                      ELSE session
        /\ UNCHANGED <<actuals, predictions>>

\* The dates of the quarter runs: one day in each month of 2007 (the 1st) and
\* of 2008 (the 28th), so that every month 1..12 is bucketed.
QuarterDates ==
    {ToDatetime(2007, m, 1) : m \in 1..12} \cup {ToDatetime(2008, m, 28) : m \in 1..12}

\* utils/data_loader.py: load_geography_data().  One row per date and country;
\* the random sales figure is one draw per country out of Amounts.
load_geography_data ==
    \E sales \in [Countries -> Amounts] :
        /\ Idle
        /\ call' = [op |-> "load_geography_data", impl |-> "data_loader", year |-> NoYear]
        /\ LET dates == SortedSeq(QuarterDates)
               cs == SortedSeq(Countries)
               row(d, c) == [date |-> d, year |-> Year(d), month |-> Month(d),
                             quarter |-> ((Month(d) - 1) \div 3) + 1,
                             week |-> IsoWeek(d), country |-> c, sales |-> sales[c]]
           IN  result' = [k \in 1..(Len(dates) * Len(cs)) |->
                             row(dates[((k - 1) \div Len(cs)) + 1], cs[((k - 1) % Len(cs)) + 1])]
        /\ outcome' = "returned"
        /\ UNCHANGED <<actuals, predictions, session>>

-----------------------------------------------------------------------------
\* The response leaves the handler; the next request can be taken.
Deliver ==
    /\ ~Idle
    /\ call' = NoCall
    /\ result' = << >>
    /\ outcome' = "none"
    /\ UNCHANGED <<actuals, predictions, session>>

Init ==
    /\ actuals \in TablesOn(Dates)
    /\ predictions \in TablesOn(Dates)
    /\ call = NoCall
    /\ result = << >>
    /\ outcome = "none"
    /\ session = NoSelection

Next ==
    \/ local_get_actuals_vs_predictions
    \/ service_get_actuals_vs_predictions
    \/ queries_get_actuals_vs_predictions
    \/ local_get_prediction_accuracy_metrics
    \/ queries_get_prediction_accuracy_metrics
    \/ Deliver

Spec == Init /\ [][Next]_vars

\* The rollups, over tables whose rows span two years.
InitRollup ==
    /\ actuals \in TablesOn(RollupDates)
    /\ predictions \in TablesOn(RollupDates)
    /\ call = NoCall
    /\ result = << >>
    /\ outcome = "none"
    /\ session = NoSelection

NextRollup ==
    \/ local_get_daily_sales
    \/ service_get_daily_sales
    \/ get_weekly_sales
    \/ calculate_monthly_net_sales
    \/ calculate_quarterly_net_sales
    \/ Deliver

SpecRollup == InitRollup /\ [][NextRollup]_vars

\* The loads, which may fail.
InitLoad ==
    /\ actuals \in TablesOn(RollupDates)
    /\ predictions \in TablesOn({1, 366})
    /\ call = NoCall
    /\ result = << >>
    /\ outcome = "none"
    /\ session = NoSelection

NextLoad ==
    \/ BigQueryDataSource_load_dashboard_data
    \/ load_dashboard_data
    \/ APIClient_get_daily_sales
    \/ Deliver

SpecLoad == InitLoad /\ [][NextLoad]_vars

\* The dates of the selector pages: a week that spans two months (2007-01-31
\* and 2007-02-01, ISO week 5), the first day of 2007 (ISO week 1) and the
\* last day of 2007 (ISO week 1 of 2008).
SelectDates == {1, 31, 32, 365}

\* Frames in file order: every sequence of up to MaxRecs records.
FramesOn(D) ==
    UNION {[1..n -> RecordsOn(D)] : n \in 0..MaxRecs}

InitSelect ==
    /\ actuals \in FramesOn(SelectDates)
    /\ predictions = << >>
    /\ call = NoCall
    /\ result = << >>
    /\ outcome = "none"
    /\ session = NoSelection

NextSelect ==
    \/ select_year
    \/ on_month_change
    \/ on_week_change
    \/ prepare_time_comparison
    \/ daily_view_filters
    \/ Deliver

SpecSelect == InitSelect /\ [][NextSelect]_vars

InitWindow ==
    /\ actuals \in TablesOn(WindowDays)
    /\ predictions \in TablesOn(WindowDays)
    /\ call = NoCall
    /\ result = << >>
    /\ outcome = "none"
    /\ session = NoSelection

NextWindow ==
    \/ window_local_get_daily_sales
    \/ window_service_get_daily_sales
    \/ window_local_get_daily_predictions
    \/ window_local_get_actuals_vs_predictions
    \/ prepare_time_comparison
    \/ Deliver

SpecWindow == InitWindow /\ [][NextWindow]_vars

InitPromo ==
    /\ actuals \in PromoTables
    /\ predictions = << >>
    /\ call = NoCall
    /\ result = << >>
    /\ outcome = "none"
    /\ session = NoSelection

NextPromo ==
    \/ queries_get_promotion_impact
    \/ data_queries_get_promotion_impact
    \/ calculate_promotion_impact
    \/ promotion_impact_endpoint
    \/ Deliver

SpecPromo == InitPromo /\ [][NextPromo]_vars

\* The predictions file holds the same rows as the actuals file; amounts of
\* zero are among them.
InitIdentity ==
    /\ actuals \in UNION { { t \in [1..n -> [DateKey : Dates, SalesAmount : Amounts \cup {0}]] :
                                \A i \in 1..(n - 1) : RowLeq(t[i], t[i + 1]) }
                            : n \in 0..MaxRecs }
    /\ predictions = actuals
    /\ call = NoCall
    /\ result = << >>
    /\ outcome = "none"
    /\ session = NoSelection

NextIdentity ==
    \/ local_get_actuals_vs_predictions
    \/ local_get_prediction_accuracy_metrics
    \/ Deliver

SpecIdentity == InitIdentity /\ [][NextIdentity]_vars

\* The worked scenario: actual records (2007-01-01, 100), (2007-01-01, 150),
\* (2007-01-02, 200) and predicted records (2007-01-01, 240), (2007-01-03, 50).
ScenarioActuals ==
    <<[DateKey |-> 1, SalesAmount |-> 100], [DateKey |-> 1, SalesAmount |-> 150],
      [DateKey |-> 2, SalesAmount |-> 200]>>

ScenarioPredictions ==
    <<[DateKey |-> 1, SalesAmount |-> 240], [DateKey |-> 3, SalesAmount |-> 50]>>

\* The two files hold the scenario's records or a part of them, in the
\* scenario's order.
InitScenario ==
    LET RowsAmong(t) ==
            {[k \in 1..Cardinality(I) |-> t[SortedSeq(I)[k]]] : I \in SUBSET DOMAIN t}
    IN  /\ actuals \in RowsAmong(ScenarioActuals)
        /\ predictions \in RowsAmong(ScenarioPredictions)
        /\ call = NoCall
        /\ result = << >>
        /\ outcome = "none"
        /\ session = NoSelection

SpecScenario == InitScenario /\ [][NextIdentity]_vars

\* The frames of at most MaxRecs rows (df_predicted: at most one row), one
\* row order for each multiset of rows.
InitFrame ==
    LET rank(x) == (x.DateKey * 4 + x.country) * 16 + x.SalesAmount
        Frames(n, A, C) ==
            UNION { { t \in [1..k -> [DateKey : FrameDates, SalesAmount : A, country : C]] :
                         \A i \in 1..(k - 1) : rank(t[i]) <= rank(t[i + 1]) }
                    : k \in 0..n }
    IN  /\ actuals \in Frames(MaxRecs, Amounts, Countries)
        /\ predictions \in Frames(1, {2}, {1})
        /\ call = NoCall
        /\ result = << >>
        /\ outcome = "none"
        /\ session = NoSelection

NextFrame ==
    \/ calculate_daily_net_sales
    \/ calculate_monthly_net_sales
    \/ calculate_quarterly_net_sales
    \/ call_get_available_months
    \/ call_get_available_weeks
    \/ aggregate_by_period
    \/ aggregate_by_period_with_totals
    \/ prepare_time_comparison
    \/ Deliver

SpecFrame == InitFrame /\ [][NextFrame]_vars

\* The quarter runs: frames whose rows fall in any month of two years.
InitQuarter ==
    /\ actuals \in { t \in TablesOn(QuarterDates) : \A i \in DOMAIN t : t[i].SalesAmount = 2 }
    /\ predictions \in { t \in TablesOn({1}) : Len(t) <= 1 }
    /\ call = NoCall
    /\ result = << >>
    /\ outcome = "none"
    /\ session = NoSelection

NextQuarter ==
    \/ load_geography_data
    \/ calculate_quarterly_net_sales
    \/ Deliver

SpecQuarter == InitQuarter /\ [][NextQuarter]_vars

InitConc ==
    /\ actuals \in TablesOn(Dates)
    /\ predictions = << >>
    /\ call = [r \in Requests |-> [op |-> "none", start |-> 0, end |-> 0,
                                   pc |-> "idle", read |-> r, overlapped |-> FALSE]]
    /\ result = [r \in Requests |-> << >>]
    /\ outcome = [r \in Requests |-> "none"]
    /\ session = [frames |-> [r \in Requests |-> NoFrame],
                  writer |-> [r \in Requests |-> r],
                  cache |-> NoFrame,
                  state |-> [r \in Requests |-> NoFrame]]

NextConc ==
    \/ conc_request
    \/ conc_load_actuals_data
    \/ conc_get_daily_sales
    \/ conc_get_sales_data
    \/ conc_deliver

SpecConc == InitConc /\ [][NextConc]_vars

-----------------------------------------------------------------------------
(* What the claims speak of, stated from the tables and the call alone.     *)

IsComparison(impls) == call.op = "get_actuals_vs_predictions" /\ call.impl \in impls
IsAccuracy(impls) == call.op = "get_prediction_accuracy_metrics" /\ call.impl \in impls

\* The dates on which a table has a row inside the requested window.
WindowDates(t) ==
    {t[i].DateKey : i \in {j \in DOMAIN t :
                              call.start <= t[j].DateKey /\ t[j].DateKey <= call.end}}
DatesA == WindowDates(actuals)
DatesP == WindowDates(predictions)
CommonDates == DatesA \cap DatesP

\* The daily value of a series on date d (0 when it has no row that day).
DailyA(d) == SumOver(actuals, 1, d)
DailyP(d) == SumOver(predictions, 1, d)

Undefined(v) == v.k \in {"none", "nan"}

\* C1: the comparison has exactly one row per date of the union of the dates
\* of the two daily series inside the window: no date dropped, none twice.
C1_AlignmentTotality ==
    IsComparison({"local_data", "data_service"}) =>
        /\ Len(result) = Cardinality(DatesA \cup DatesP)
        /\ {result[i].date : i \in DOMAIN result}
               = {IsoFormat(d) : d \in DatesA \cup DatesP}
        /\ \A i, j \in DOMAIN result : i # j => result[i].date # result[j].date

C1_Witness ==
    /\ IsComparison({"local_data", "data_service"})
    /\ DatesA \ DatesP # {}
    /\ DatesP \ DatesA # {}
    /\ Len(result) = 2

\* C2: in every comparison row percentage_error is |actual - predicted| /
\* actual * 100 when actual > 0 and null otherwise (never 0, never infinite).
C2_PercentageError ==
    IsComparison({"local_data", "queries"}) =>
        \A i \in DOMAIN result :
            LET a == result[i].actual_sales.n
                p == result[i].predicted_sales.n
            IN  IF a > 0
                THEN result[i].percentage_error = Q(Abs(a - p) * 100, a)
                ELSE result[i].percentage_error.k = "none"

\* C3: in a row whose date is in one series only, the absent side's value and
\* record count are 0 and absolute_error is |actual - predicted| with that 0.
C3_ZeroFill ==
    IsComparison({"local_data", "data_service"}) =>
        \A i \in DOMAIN result, d \in DatesA \cup DatesP :
            result[i].date = IsoFormat(d) =>
                /\ d \notin DatesA =>
                      /\ result[i].actual_sales = V(0)
                      /\ result[i].actual_records = V(0)
                      /\ result[i].absolute_error = V(Abs(DailyP(d)))
                /\ d \notin DatesP =>
                      /\ result[i].predicted_sales = V(0)
                      /\ result[i].predicted_records = V(0)
                      /\ result[i].absolute_error = V(Abs(DailyA(d)))

C3_Witness ==
    /\ IsComparison({"local_data", "data_service"})
    /\ \E i \in DOMAIN result, d \in DatesP \ DatesA :
          /\ result[i].date = IsoFormat(d)
          /\ result[i].predicted_sales.n # 0
    /\ \E i \in DOMAIN result, d \in DatesA \ DatesP :
          /\ result[i].date = IsoFormat(d)
          /\ result[i].actual_sales.n # 0

\* The mean of |A_d - P_d| over the dates D (D non-empty).
MeanAbsError(D) ==
    LET ds == SortedSeq(D)
    IN  Q(SumInts([i \in DOMAIN ds |-> Abs(DailyA(ds[i]) - DailyP(ds[i]))], 1), Len(ds))

\* C4: the accuracy report is computed over exactly the dates present in both
\* daily series: total_predictions is their number and MAE is the mean of
\* |actual - predicted| of the daily values on those dates.
C4_CommonDatesOnly ==
    IsAccuracy({"local_data", "queries"}) =>
        /\ result.total_predictions = Cardinality(CommonDates)
        /\ CommonDates # {} => result.mae = MeanAbsError(CommonDates)

\* C5: with no common date the report has sampleCount 0 and MAE,
\* RMSE, MAPE and correlation all undefined.
C5_NoOverlapUndefined ==
    (IsAccuracy({"local_data"}) /\ CommonDates = {}) =>
        /\ outcome = "returned"
        /\ result.total_predictions = 0
        /\ Undefined(result.mae) /\ Undefined(result.rmse)
        /\ Undefined(result.mape) /\ Undefined(result.correlation)

\* The mean of |A_d - P_d| / A_d * 100 over the dates D (D non-empty, A_d # 0).
MeanPctError(D) ==
    LET ds == SortedSeq(D)
        t == SumVals([i \in DOMAIN ds |->
                         Q(Abs(DailyA(ds[i]) - DailyP(ds[i])) * 100, DailyA(ds[i]))], 1)
    IN  Q(t.n, t.d * Len(ds))

\* C6: MAPE is the mean of |actual - predicted| / actual * 100 over the common
\* dates whose actual value is > 0, and undefined when there is no such date
\* (stated here for reports with at least one common date).
C6_MapePositiveActuals ==
    (IsAccuracy({"local_data", "queries"}) /\ CommonDates # {}) =>
        LET pos == {d \in CommonDates : DailyA(d) > 0}
        IN  IF pos = {} THEN Undefined(result.mape)
            ELSE result.mape = MeanPctError(pos)

\* One of the two daily series is constant over the common dates.
ConstantOverCommon ==
    \/ \A d, e \in CommonDates : DailyA(d) = DailyA(e)
    \/ \A d, e \in CommonDates : DailyP(d) = DailyP(e)

\* C7: whenever the actual or the predicted values over the common
\* dates are all equal (zero and one sample included) correlation is undefined.
C7_ConstantUndefined ==
    (IsAccuracy({"local_data"}) /\ ConstantOverCommon) =>
        Undefined(result.correlation)

-----------------------------------------------------------------------------
(* Loading and rollups.                                                     *)

IsLoad ==
    \/ call.op = "load_dashboard_data"
    \/ call.op = "get_daily_sales" /\ call.impl = "APIClient"

\* C8: whenever fetching the actual or the predicted series fails, the load
\* ends in an error delivered to its caller: it returns nothing in its place.
C8_FetchErrorsPropagate ==
    (IsLoad /\ call.fault # "none") => outcome = "raised"

\* The rows of the actuals table inside the requested window.
RowsInWindow ==
    {i \in DOMAIN actuals :
        call.start <= actuals[i].DateKey /\ actuals[i].DateKey <= call.end}

InScope(t) ==
    IF call.op \in {"calculate_monthly_net_sales", "calculate_quarterly_net_sales"}
    THEN {i \in DOMAIN t : call.year = NoYear \/ Year(t[i].DateKey) = call.year}
    ELSE {i \in DOMAIN t : call.start <= t[i].DateKey /\ t[i].DateKey <= call.end}

\* The time bucket of a date for the call's granularity: <<year, ordinal>>.
BucketOf(d) ==
    IF call.op = "calculate_monthly_net_sales" THEN <<Year(d), Month(d)>>
    ELSE IF call.op = "calculate_quarterly_net_sales" THEN <<Year(d), Quarter(d)>>
    ELSE IF call.op = "get_weekly_sales" THEN <<Year(d), CalendarWeekLabel(d)>>
    ELSE <<Year(d), DayOfYear(d)>>

BucketsOf(t) == {BucketOf(t[i].DateKey) : i \in InScope(t)}

BucketTotal(t, b) == SumAt(t, {i \in InScope(t) : BucketOf(t[i].DateKey) = b})

\* The total a rollup row reports.
RowTotal(row) ==
    IF call.op = "get_weekly_sales" THEN row.total_net_sales
    ELSE IF call.op = "get_daily_sales" THEN row.total_sales.n
    ELSE row.net_sales

\* rows holds exactly one row per bucket of t, carrying that bucket's total.
OneRowPerBucket(rows, t) ==
    /\ Len(rows) = Cardinality(BucketsOf(t))
    /\ \E f \in [BucketsOf(t) -> DOMAIN rows] :
          /\ \A b, c \in BucketsOf(t) : b # c => f[b] # f[c]
          /\ \A b \in BucketsOf(t) : RowTotal(rows[f[b]]) = BucketTotal(t, b)

\* C10: every rollup has exactly one row per time bucket (year and period
\* ordinal) that has records, and a row sums exactly the records of its bucket.
C10_OneRowPerBucket ==
    /\ call.op \in {"calculate_monthly_net_sales", "calculate_quarterly_net_sales"} =>
          /\ OneRowPerBucket(result[1], actuals)
          /\ OneRowPerBucket(result[2], predictions)
    /\ call.op = "get_weekly_sales" => OneRowPerBucket(result, actuals)
    /\ (call.op = "get_daily_sales" /\ call.impl \in {"local_data", "data_service"}) =>
          OneRowPerBucket(result, actuals)

-----------------------------------------------------------------------------
(* Ordering of the rollup rows.                                             *)

\* Text order of two isoformat dates, strict.
IsoBefore(a, b) ==
    \/ a[1] < b[1]
    \/ a[1] = b[1] /\ a[2] < b[2]
    \/ a[1] = b[1] /\ a[2] = b[2] /\ a[3] < b[3]

\* The earliest windowed record of a weekly row: its bucket starts in the
\* week of that date.
WeekRowStart(row) ==
    LET ds == {actuals[i].DateKey : i \in {j \in RowsInWindow :
                  CalendarWeekLabel(actuals[j].DateKey) = row.week}}
    IN  CHOOSE d \in ds : \A e \in ds : d <= e

AscendingByDate(rows) ==
    \A k \in 1..(Len(rows) - 1) : rows[k].date < rows[k + 1].date

\* C11: the rows of every rollup are in ascending chronological order of
\* their bucket start: each row's bucket starts strictly before the next's.
C11_BucketOrdering ==
    /\ (call.op = "get_daily_sales" /\ call.impl \in {"local_data", "data_service"}) =>
          \A k \in 1..(Len(result) - 1) : IsoBefore(result[k].date, result[k + 1].date)
    /\ call.op \in {"calculate_monthly_net_sales", "calculate_quarterly_net_sales"} =>
          AscendingByDate(result[1]) /\ AscendingByDate(result[2])
    /\ call.op = "get_weekly_sales" =>
          \A k \in 1..(Len(result) - 1) :
              WeekRowStart(result[k]) < WeekRowStart(result[k + 1])

-----------------------------------------------------------------------------
(* Weeks, months and the selectors.                                         *)

\* The ISO week-year of a date: the year of the Thursday of its week.
IsoYear(n) == Year(IsoThursday(n))

\* The rows of the frame a time-comparison call keeps.
ComparisonRows ==
    {i \in DOMAIN actuals :
        TimeFilter(actuals[i], call.view, call.year, call.month, call.week, call.quarter)}

\* C12: the year paired with an ISO week number is the ISO week-year of the
\* record's date: a week offered under a year has a record of that week in
\* that ISO year, and two records of one (year, week) row of the time
\* comparison lie in the same ISO week-year.
C12_IsoWeekYear ==
    /\ (call.op = "daily_view_filters" /\ call.year # Unset) =>
          \A k \in DOMAIN result.available_weeks :
              \E i \in DOMAIN actuals :
                  /\ call.month # Unset => Month(actuals[i].DateKey) = call.month
                  /\ IsoWeek(actuals[i].DateKey) = result.available_weeks[k]
                  /\ IsoYear(actuals[i].DateKey) = call.year
    /\ (call.op = "prepare_time_comparison" /\ call.view = "Daily View"
        /\ GroupsByPeriod(call.view, call.month, call.week, call.quarter)) =>
          \A i, j \in ComparisonRows :
              (/\ Year(actuals[i].DateKey) = Year(actuals[j].DateKey)
               /\ IsoWeek(actuals[i].DateKey) = IsoWeek(actuals[j].DateKey))
                  => IsoYear(actuals[i].DateKey) = IsoYear(actuals[j].DateKey)

\* C13: each week belongs to one month: the week lists get_weeks_for_month
\* gives for two different months have no week in common.
C13_WeekInOneMonth ==
    \A m1, m2 \in 1..12 :
        m1 # m2 => get_weeks_for_month(actuals, m1) \cap get_weeks_for_month(actuals, m2) = {}

\* The months in which a week with number w of the data starts (its Monday).
StartMonthsOf(w) ==
    {Month(actuals[i].DateKey - IsoWeekday(actuals[i].DateKey) + 1) :
        i \in {j \in DOMAIN actuals : IsoWeek(actuals[j].DateKey) = w}}

\* C14: selecting a specific week sets the month selection to the month that
\* contains the start date of that week, whatever month was selected before.
C14_WeekSetsMonth ==
    [][(session'.week_filter # session.week_filter /\ session'.week_filter # AllWeeks) =>
           /\ session'.month_filter \in StartMonthsOf(session'.week_filter)
           /\ session'.selected_month = session'.month_filter]_vars

\* C15: every month and week option offered has at least one record under
\* the selections already made.
C15_OptionsHaveData ==
    /\ Len(actuals) > 0 =>
          /\ \A m \in MonthOptions \ {AllMonths} :
                \E i \in DOMAIN actuals :
                    /\ session.year_filter # AllYears =>
                           Year(actuals[i].DateKey) = session.year_filter
                    /\ Month(actuals[i].DateKey) = m
          /\ \A w \in WeekOptions(actuals, session.month_filter) \ {AllWeeks} :
                \E i \in DOMAIN actuals :
                    /\ session.year_filter # AllYears =>
                           Year(actuals[i].DateKey) = session.year_filter
                    /\ session.month_filter # AllMonths =>
                           Month(actuals[i].DateKey) = session.month_filter
                    /\ IsoWeek(actuals[i].DateKey) = w
    /\ call.op = "daily_view_filters" =>
          /\ \A k \in DOMAIN result.available_months :
                \E i \in DOMAIN actuals :
                    /\ Year(actuals[i].DateKey) = EpochYear
                    /\ call.year # Unset => Year(actuals[i].DateKey) = call.year
                    /\ Month(actuals[i].DateKey) = result.available_months[k]
          /\ \A k \in DOMAIN result.available_weeks :
                \E i \in DOMAIN actuals :
                    /\ Year(actuals[i].DateKey) = EpochYear
                    /\ call.year # Unset => Year(actuals[i].DateKey) = call.year
                    /\ call.month # Unset => Month(actuals[i].DateKey) = call.month
                    /\ IsoWeek(actuals[i].DateKey) = result.available_weeks[k]

-----------------------------------------------------------------------------
(* Windows and empty results.                                               *)

IsWindowed ==
    call.op \in {"get_daily_sales", "get_daily_predictions", "get_actuals_vs_predictions"}

\* The table(s) a windowed call reads.
ReadsActuals == call.op \in {"get_daily_sales", "get_actuals_vs_predictions"}
ReadsPredictions == call.op \in {"get_daily_predictions", "get_actuals_vs_predictions"}

\* The number of records of table t on date d that a result row reports.
RowCountOf(row, t) ==
    IF call.op = "get_actuals_vs_predictions"
    THEN IF t = "actuals" THEN row.actual_records.n ELSE row.predicted_records.n
    ELSE row.total_records

\* Every record of t dated d is counted in the result row of d.
Contributes(t, name, d) ==
    CountOver(t, d) > 0 =>
        \E k \in DOMAIN result :
            /\ result[k].date = IsoFormat(d)
            /\ RowCountOf(result[k], name) = CountOver(t, d)

\* C16: every returned row is dated within [start, end], and the records
\* dated start or end themselves contribute to the result.
C16_InclusiveWindow ==
    IsWindowed =>
        /\ \A k \in DOMAIN result :
              /\ ~IsoBefore(result[k].date, IsoFormat(call.start))
              /\ ~IsoBefore(IsoFormat(call.end), result[k].date)
        /\ call.start <= call.end =>
              \A d \in {call.start, call.end} :
                  /\ ReadsActuals => Contributes(actuals, "actuals", d)
                  /\ ReadsPredictions => Contributes(predictions, "predictions", d)

C16_Witness ==
    /\ call.op = "get_daily_sales"
    /\ call.start < call.end
    /\ CountOver(actuals, call.start) > 0
    /\ CountOver(actuals, call.end) > 0
    /\ Len(result) = 2

\* C17: when the range and filters match no record the call returns, without
\* raising, an empty sequence (daily aggregation, comparison) or an empty
\* table (time comparison).
C17_EmptyIsEmpty ==
    /\ (IsWindowed /\ (ReadsActuals => WindowDates(actuals) = {})
                   /\ (ReadsPredictions => WindowDates(predictions) = {})) =>
          outcome = "returned" /\ result = << >>
    /\ (call.op = "prepare_time_comparison" /\ ComparisonRows = {}) =>
          outcome = "returned" /\ result = << >>

C17_Witness ==
    /\ call.op = "get_actuals_vs_predictions"
    /\ Len(actuals) > 0 /\ Len(predictions) > 0
    /\ WindowDates(actuals) = {} /\ WindowDates(predictions) = {}
    /\ outcome = "returned" /\ result = << >>

-----------------------------------------------------------------------------
(* Promotion impact.                                                        *)

IsPromotionImpact == call.op \in {"get_promotion_impact", "calculate_promotion_impact"}

\* The rows of the window that carry the promotion flag f.
Partition(f) ==
    {i \in DOMAIN actuals : /\ call.start <= actuals[i].DateKey
                            /\ actuals[i].DateKey <= call.end
                            /\ (actuals[i].PromotionKey # 1) = f}

OnePartitionEmpty == Partition(TRUE) = {} \/ Partition(FALSE) = {}

\* C18: when every record of the window has the same promotion flag, the
\* promotion-impact computation reports a distinct insufficient-data outcome,
\* produces no number for any lift or ratio, and has divided by nothing that
\* comes from zero records or is zero.
C18_InsufficientData ==
    (IsPromotionImpact /\ OnePartitionEmpty) =>
        /\ outcome = "insufficient_data"
        /\ result = << >>

\* The mean amount of a partition, from the records themselves.
PartitionMean(f) ==
    Q(SumInts([i \in DOMAIN actuals |->
                  IF i \in Partition(f) THEN actuals[i].SalesAmount ELSE 0], 1),
      Cardinality(Partition(f)))

Less(a, b) == a.n * b.d < b.n * a.d

\* liftPercent = (promotedValue - nonPromotedValue) / nonPromotedValue * 100
\* over the avg_sale_value column of the two rows returned.
LiftPercent(rows) ==
    LET val(f) == (CHOOSE i \in DOMAIN rows : rows[i].has_promotion = f)
        promotedValue == rows[val(TRUE)].avg_sale_value
        nonPromotedValue == rows[val(FALSE)].avg_sale_value
    IN  VMul(VDiv(VSub(promotedValue, nonPromotedValue), nonPromotedValue), 100)

IsLift ==
    /\ call.op = "get_promotion_impact" /\ call.impl = "data_queries"
    /\ ~OnePartitionEmpty
    /\ Len(result) = 2

\* C19 as stated: with both partitions non-empty, a promoted mean above the
\* non-promoted mean gives liftPercent > 0 and equal means give liftPercent = 0.
C19_LiftSign ==
    (call.op = "get_promotion_impact" /\ call.impl = "data_queries" /\ ~OnePartitionEmpty) =>
        /\ Len(result) = 2
        /\ Less(PartitionMean(FALSE), PartitionMean(TRUE)) => VGt0(LiftPercent(result))
        /\ PartitionMean(TRUE) = PartitionMean(FALSE) => LiftPercent(result) = V(0)

\* C19 amended: with both partitions non-empty, a promoted mean above a
\* positive non-promoted mean gives liftPercent > 0, and equal non-zero means
\* give liftPercent = 0.
C19_LiftSignPositiveBase ==
    (call.op = "get_promotion_impact" /\ call.impl = "data_queries" /\ ~OnePartitionEmpty) =>
        /\ Len(result) = 2
        /\ (Less(V(0), PartitionMean(FALSE)) /\ Less(PartitionMean(FALSE), PartitionMean(TRUE)))
              => VGt0(LiftPercent(result))
        /\ (PartitionMean(TRUE) = PartitionMean(FALSE) /\ PartitionMean(FALSE) # V(0))
              => LiftPercent(result) = V(0)

\* a promoted mean of 4 against a non-promoted mean of 2: a lift of 100.
C19_Witness ==
    /\ IsLift
    /\ PartitionMean(TRUE) = V(4) /\ PartitionMean(FALSE) = V(2)
    /\ LiftPercent(result) = V(100)

-----------------------------------------------------------------------------
(* Accuracy of a series against itself.                                     *)

\* The daily values of the actuals inside the window.
SeriesValues == {DailyA(d) : d \in DatesA}

\* C20: for a series with at least two distinct values, aligned with itself,
\* the accuracy report has MAE = 0, RMSE = 0, MAPE = 0 and correlation = 1,
\* also when some of its values are 0.
C20_IdenticalSeries ==
    (IsAccuracy({"local_data"}) /\ predictions = actuals /\ Cardinality(SeriesValues) >= 2) =>
        /\ result.total_predictions = Cardinality(DatesA)
        /\ result.mae = V(0)
        /\ result.rmse = V(0)
        /\ result.mape = V(0)
        /\ result.correlation = V(1)

\* a report on a series with itself that has a day of 0 and a day of 2.
C20_Witness ==
    /\ IsAccuracy({"local_data"}) /\ predictions = actuals
    /\ {0, 2} \subseteq SeriesValues
    /\ result.mape = V(0) /\ result.correlation = V(1)

-----------------------------------------------------------------------------
(* The worked scenario.                                                     *)

\* The scenario's records are loaded and the window holds its three days.
OnScenario ==
    /\ actuals = ScenarioActuals /\ predictions = ScenarioPredictions
    /\ call.start = 1 /\ call.end >= 3

\* C21 as stated: on the scenario the accuracy evaluation uses the two rows
\* 01-01 and 01-02 and reports sampleCount = 2 and MAE = 105.
C21_ScenarioAccuracy ==
    (IsAccuracy({"local_data"}) /\ OnScenario) =>
        result.total_predictions = 2 /\ result.mae = V(105)

\* C21 amended: on the scenario the accuracy evaluation uses the one row that
\* both series have, 01-01 (250 against 240), and reports sampleCount = 1 and
\* MAE = 10.
C21_ScenarioCommonRow ==
    (IsAccuracy({"local_data"}) /\ OnScenario) =>
        /\ CommonDates = {1}
        /\ result.total_predictions = 1
        /\ result.mae = V(10)
        /\ result.rmse = V(10)
        /\ result.mape = V(4)

C21_Witness ==
    IsAccuracy({"local_data"}) /\ OnScenario /\ result.mae = V(10)

\* C22: on the scenario the daily actual sums are 01-01 -> 250 and
\* 01-02 -> 200 and the alignment has exactly three rows: 01-01 (250 vs 240,
\* absolute error 10, percentage error 4), 01-02 (200 vs 0, absolute error
\* 200, percentage error 100) and 01-03 (0 vs 50, absolute error 50,
\* percentage error undefined).
C22_ScenarioAlignment ==
    (IsComparison({"local_data"}) /\ OnScenario) =>
        /\ Len(result) = 3
        /\ \A i \in 1..3 : result[i].date = IsoFormat(i)
        /\ <<result[1].actual_sales, result[1].predicted_sales,
             result[1].absolute_error, result[1].percentage_error>>
               = <<V(250), V(240), V(10), V(4)>>
        /\ <<result[2].actual_sales, result[2].predicted_sales,
             result[2].absolute_error, result[2].percentage_error>>
               = <<V(200), V(0), V(200), V(100)>>
        /\ <<result[3].actual_sales, result[3].predicted_sales,
             result[3].absolute_error>> = <<V(0), V(50), V(50)>>
        /\ Undefined(result[3].percentage_error)

C22_Witness ==
    /\ IsComparison({"local_data"}) /\ OnScenario
    /\ Len(result) = 3 /\ result[3].absolute_error = V(50)

-----------------------------------------------------------------------------
(* The frames in memory.                                                    *)

\* C23: every aggregation, filter-option and comparison operation leaves the
\* frames it is given as they were: the same rows with the same fields and
\* values after the call as before it.
C23_RecordsUnchanged == [][actuals' = actuals /\ predictions' = predictions]_vars

\* a monthly rollup without a year filter has returned rows for a frame that
\* has rows: the call that assigns its columns to the unfiltered working frame.
C23_Witness ==
    /\ call.op = "calculate_monthly_net_sales" /\ call.year = NoYear
    /\ Len(actuals) > 0 /\ Len(result[1]) > 0

-----------------------------------------------------------------------------
(* Requests in progress at once.                                            *)

\* What a request returns when it is the only one.
AloneResult(r) ==
    IF call[r].op = "get_daily_sales"
    THEN LocalDailySales(actuals, call[r].start, call[r].end)
    ELSE actuals

-----------------------------------------------------------------------------
(* load_dashboard_data with a date range.                                   *)

\* C25: when start_date or end_date is given, load_dashboard_data applies no
\* year filter: the actual rows requested are exactly those with
\* start_date <= DateKey <= end_date, whatever year is (2007 by default).
C25_DateRangeOverridesYear ==
    (/\ call.op = "load_dashboard_data" /\ call.impl = "sales_calculations"
     /\ outcome = "returned" /\ call.limit = Unset
     /\ (call.start # Unset \/ call.end # Unset)) =>
        {result[1][i].DateKey : i \in DOMAIN result[1]}
          = {actuals[i].DateKey : i \in
                {j \in DOMAIN actuals :
                    /\ call.start # Unset => call.start <= actuals[j].DateKey
                    /\ call.end # Unset => actuals[j].DateKey <= call.end}}

\* The months of quarter q, written out: q is the quarter of month m.
InQuarter(m, q) == q \in 1..4 /\ 3 * (q - 1) < m /\ m <= 3 * q

\* A quarterly row's representative month is the first month of its quarter:
\* it lies in the quarter, the month before it does not, and the row's date
\* is in that month and maps back to the same quarter.
FirstMonthOfQuarter(row) ==
    /\ row.month \in 1..12
    /\ InQuarter(row.month, row.quarter)
    /\ ~InQuarter(row.month - 1, row.quarter)
    /\ ((row.month - 1) \div 3) + 1 = row.quarter
    /\ Month(row.date) = row.month
    /\ Quarter(row.date) = row.quarter

\* C26: for every month m in 1..12 the quarter used for bucketing is
\* ((m-1) div 3) + 1 (in the generated geography rows and in the quarterly
\* rollup, where every record of month m is counted in the row of that
\* quarter), and the representative month quarter*3 - 2 of a quarterly row is
\* the first month of that same quarter, so mapping it back gives the quarter.
C26_QuarterOfMonth ==
    /\ call.op = "load_geography_data" =>
           /\ \A m \in 1..12 : \E k \in DOMAIN result : result[k].month = m
           /\ \A k \in DOMAIN result :
                  /\ result[k].quarter = ((result[k].month - 1) \div 3) + 1
                  /\ InQuarter(result[k].month, result[k].quarter)
    /\ call.op = "calculate_quarterly_net_sales" =>
           \A side \in 1..2 :
               LET df == IF side = 1 THEN actuals ELSE predictions
                   rows == result[side]
               IN  /\ \A k \in DOMAIN rows : FirstMonthOfQuarter(rows[k])
                   /\ \A i \in DOMAIN df :
                          (call.year = NoYear \/ Year(df[i].DateKey) = call.year) =>
                              \E k \in DOMAIN rows :
                                  /\ rows[k].year = Year(df[i].DateKey)
                                  /\ rows[k].quarter = ((Month(df[i].DateKey) - 1) \div 3) + 1
                                  /\ InQuarter(Month(df[i].DateKey), rows[k].quarter)

\* A December record and a May record of one year are rolled up: the rows of
\* quarter 4 (dated October) and of quarter 2 (dated April) are returned.
C26_Witness ==
    /\ call.op = "calculate_quarterly_net_sales"
    /\ \E i, j \in DOMAIN actuals :
           /\ Month(actuals[i].DateKey) = 5
           /\ Month(actuals[j].DateKey) = 12
    /\ \E k, l \in DOMAIN result[1] :
           /\ result[1][k].quarter = 2 /\ result[1][k].month = 4
           /\ result[1][l].quarter = 4 /\ result[1][l].month = 10

\* The sum of the total_sales column of the comparison rows.
RECURSIVE ComparisonTotal(_)
ComparisonTotal(rows) ==
    IF rows = << >> THEN 0 ELSE Head(rows).total_sales + ComparisonTotal(Tail(rows))

\* The records of the frame in the year of the call.
InCallYear(i) == call.year = AllYears \/ Year(actuals[i].DateKey) = call.year

\* C27: in the Daily view, with a specific week selected the comparison is
\* computed from exactly the records of that ISO week number in the filtered
\* year, whatever the month filter is (the rows are those of the same call
\* with the month filter at All Months, and every row is labelled with the
\* week); the month filter restricts the records only when the week filter
\* is All Weeks.
C27_WeekOverMonth ==
    (call.op = "prepare_time_comparison" /\ call.view = "Daily View") =>
        /\ call.week # AllWeeks =>
               /\ ComparisonTotal(result) =
                      SumAt(actuals, {i \in DOMAIN actuals :
                                         InCallYear(i) /\ IsoWeek(actuals[i].DateKey) = call.week})
               /\ result = PrepareTimeComparison(actuals, "Daily View", call.year, AllMonths,
                                                 call.week, AllQuarters)
               /\ \A k \in DOMAIN result : result[k].Period = [prefix |-> "Week ", n |-> call.week]
        /\ (call.week = AllWeeks /\ call.month # AllMonths) =>
               ComparisonTotal(result) =
                   SumAt(actuals, {i \in DOMAIN actuals :
                                      InCallYear(i) /\ Month(actuals[i].DateKey) = call.month})
        /\ (call.week = AllWeeks /\ call.month = AllMonths) =>
               ComparisonTotal(result) = SumAt(actuals, {i \in DOMAIN actuals : InCallYear(i)})

\* Week 5 is selected while the month filter is January, and the frame has a
\* record on 2007-02-01 (week 5, February): the record is in the returned total.
C27_Witness ==
    /\ call.op = "prepare_time_comparison" /\ call.view = "Daily View"
    /\ call.week = 5 /\ call.month = 1 /\ call.year = AllYears
    /\ \E i \in DOMAIN actuals : actuals[i].DateKey = 32 /\ actuals[i].SalesAmount = 2
    /\ \A i \in DOMAIN actuals : actuals[i].DateKey = 32
    /\ Len(result) = 1
    /\ result[1].total_sales = SumAt(actuals, DOMAIN actuals)
    /\ result[1].total_sales > 0

\* The stored month and week filters agree: a specific week under a specific
\* month is one of the weeks of that month.
FilterPairConsistent ==
    (session.month_filter # AllMonths /\ session.week_filter # AllWeeks) =>
        session.week_filter \in get_weeks_for_month(actuals, session.month_filter)

\* A step of on_week_change that selects "All Weeks".
SelectsAllWeeks ==
    /\ session.selected_week # AllWeeks
    /\ session'.selected_week = AllWeeks

\* C28: after any sequence of month and week selections handled by
\* on_month_change and on_week_change the stored pair is consistent (a
\* specific week under a specific month is in get_weeks_for_month(data,
\* month)), and selecting All Weeks leaves the month selection unchanged.
C28_FilterPairConsistent ==
    /\ []FilterPairConsistent
    /\ [][SelectsAllWeeks =>
             /\ session'.week_filter = AllWeeks
             /\ session'.month_filter = session.month_filter
             /\ session'.selected_month = session.selected_month]_vars

\* Week 5 was selected (which set the month to January, the month of the
\* first record of that week) and then February, which also has week 5: the
\* week stays selected under the new month.
C28_Witness ==
    /\ session.week_filter = 5 /\ session.selected_week = 5
    /\ session.month_filter = 2 /\ session.selected_month = 2
    /\ Len(actuals) = 2
    /\ actuals[1].DateKey = 31 /\ actuals[2].DateKey = 32

\* The sum of the net_sales column of rollup rows.
RECURSIVE NetTotal(_)
NetTotal(rows) ==
    IF rows = << >> THEN 0 ELSE Head(rows).net_sales + NetTotal(Tail(rows))

\* The net_sales of the records of frame df in the year of the call.
YearTotal(df) ==
    SumAt(df, {i \in DOMAIN df : call.year = NoYear \/ Year(df[i].DateKey) = call.year})

\* Each quarterly row equals the sum of the monthly rows of its three months.
QuarterOfMonths(df, rows) ==
    \A k \in DOMAIN rows :
        rows[k].net_sales =
            NetTotal(SelectSeq(ProcessMonthly(df, call.year),
                               LAMBDA m : /\ m.year = rows[k].year
                                          /\ ((m.month - 1) \div 3) + 1 = rows[k].quarter))

\* The monthly and quarterly rollups of both frames carry the year's total.
RollupTotalsAgree ==
    /\ call.op = "calculate_monthly_net_sales" =>
           /\ NetTotal(result[1]) = YearTotal(actuals)
           /\ NetTotal(result[2]) = YearTotal(predictions)
    /\ call.op = "calculate_quarterly_net_sales" =>
           /\ NetTotal(result[1]) = YearTotal(actuals)
           /\ NetTotal(result[2]) = YearTotal(predictions)
           /\ QuarterOfMonths(actuals, result[1])
           /\ QuarterOfMonths(predictions, result[2])

\* C29: for every record set and every year filter (none included) the
\* net_sales totals agree across granularities: the daily, the monthly and
\* the quarterly rows each sum to the net_sales of the records of that year,
\* and each quarterly row is the sum of the monthly rows of its three months.
C29_TotalsAgree ==
    /\ RollupTotalsAgree
    /\ call.op = "calculate_daily_net_sales" =>
           /\ outcome = "returned"
           /\ NetTotal(result) = YearTotal(actuals)

\* The records of a country in the frame.
CountryRecords(c) == {i \in DOMAIN actuals : actuals[i].country = c}

\* The distinct periods (days, months of a year, quarters of a year) in which
\* country c has a record.
CountryPeriods(c, freq) ==
    {IF freq = "D" THEN <<actuals[i].DateKey>>
     ELSE IF freq = "M" THEN <<Year(actuals[i].DateKey), Month(actuals[i].DateKey)>>
     ELSE <<Year(actuals[i].DateKey), Quarter(actuals[i].DateKey)>> : i \in CountryRecords(c)}

\* C30: for every record set and every country, aggregate_by_period_with_totals
\* returns the same total_sales for the daily, monthly and quarterly frequency
\* (the sum of the country's net_sales), its avg_sales is total_sales divided
\* by the number of distinct periods in which the country has a record, and
\* that avg_sales is the value aggregate_by_period returns for the frequency.
C30_TotalsAndAverages ==
    call.op = "aggregate_by_period_with_totals" =>
        /\ {result[k].country : k \in DOMAIN result}
               = {actuals[i].country : i \in DOMAIN actuals}
        /\ \A k \in DOMAIN result :
               LET c == result[k].country
                   n == Cardinality(CountryPeriods(c, call.freq))
               IN  /\ result[k].total_sales = V(SumAt(actuals, CountryRecords(c)))
                   /\ \A f \in {"D", "M", "Q"} :
                          \E j \in DOMAIN AggregateByPeriodWithTotals(actuals, f) :
                              /\ AggregateByPeriodWithTotals(actuals, f)[j].country = c
                              /\ AggregateByPeriodWithTotals(actuals, f)[j].total_sales
                                     = result[k].total_sales
                   /\ n > 0
                   /\ result[k].avg_sales = Q(result[k].total_sales.n, n)
                   /\ \E j \in DOMAIN AggregateByPeriod(actuals, call.freq) :
                          /\ AggregateByPeriod(actuals, call.freq)[j].country = c
                          /\ AggregateByPeriod(actuals, call.freq)[j].net_sales
                                 = result[k].avg_sales

\* One country has two records on different days of one month: the monthly
\* call returns total 4 over one period (average 4), not the mean per record.
C30_Witness ==
    /\ call.op = "aggregate_by_period_with_totals" /\ call.freq = "M"
    /\ Len(actuals) = 2
    /\ actuals[1].country = actuals[2].country
    /\ actuals[1].DateKey = 1 /\ actuals[2].DateKey = 2
    /\ actuals[1].SalesAmount = 2 /\ actuals[2].SalesAmount = 2
    /\ Len(result) = 1
    /\ result[1].total_sales = V(4) /\ result[1].avg_sales = V(4)

====
